---- MODULE Spec2Model ----
(***************************************************************************)
(* Model of the streaming chat client (vanilla main.js, chunked protocol). *)
(*                                                                         *)
(* The response body is a sequence of byte fragments.  Each read appends   *)
(* the decoded text to a buffer, splits it on newline, keeps the last      *)
(* piece as the new buffer and dispatches every other piece as one line.   *)
(* A line is blank-filtered, JSON-parsed and dispatched on msg.type.       *)
(*                                                                         *)
(* Text is a sequence of symbols.  In the session specification a symbol   *)
(* other than newline and blank stands for one complete JSON text (or one  *)
(* piece of text that is not JSON); JSONparse says what it parses to.      *)
(*                                                                         *)
(* The same page with several calls running (SpecSessions, SpecFollowUp),  *)
(* the non-streaming React client (SpecPage) and the two atomic-suggestion *)
(* clients (SpecAtomic) have sections of their own below.                  *)
(***************************************************************************)
EXTENDS Integers, Sequences, FiniteSets, TLC

VARIABLES
    dom,              \* the page: chat bubbles, loaders, send button, focus
    lastSuggestions,  \* module-level cache {agent, content} or null
    sess,             \* locals of the running initiateFetchAndStream call
    hist,             \* observer of the response text (not read by the code)
    dec,              \* the frame decoder run on raw bytes (SpecDecoder)
    ms,               \* the page with every call made so far (SpecSessions)
    page,             \* the non-streaming React client (SpecPage)
    atom              \* an atomic-suggestion client (SpecAtomic)

vars == <<dom, lastSuggestions, sess, hist, dec, ms, page, atom>>

(***************************************************************************)
(* Bounds of the model.                                                    *)
(***************************************************************************)
MaxBuf == 1         \* symbols of an unterminated line kept in the buffer
MaxChunks == 2      \* chunk events dispatched in one response
MaxBytes == 5       \* bytes fed to the decoder in SpecDecoder
MaxDecFrag == 3     \* bytes in one read() result in SpecDecoder

NL == "\n"
SP == " "

(***************************************************************************)
(* Text helpers.                                                           *)
(***************************************************************************)
RECURSIVE IndexOfNL(_, _)
\* index of the first newline of t at or after i, 0 when there is none
IndexOfNL(t, i) ==
    IF i > Len(t) THEN 0
    ELSE IF t[i] = NL THEN i
    ELSE IndexOfNL(t, i + 1)

RECURSIVE SplitNL(_)
\* String.prototype.split('\n'): always at least one piece
SplitNL(t) ==
    LET i == IndexOfNL(t, 1) IN
    IF i = 0 THEN <<t>>
    ELSE <<SubSeq(t, 1, i - 1)>> \o SplitNL(SubSeq(t, i + 1, Len(t)))

RECURSIVE TrimLeft(_)
TrimLeft(t) ==
    IF t /= <<>> /\ Head(t) = SP THEN TrimLeft(Tail(t)) ELSE t

RECURSIVE TrimRight(_)
TrimRight(t) ==
    IF t /= <<>> /\ t[Len(t)] = SP THEN TrimRight(SubSeq(t, 1, Len(t) - 1)) ELSE t

\* String.prototype.trim
Trim(t) == TrimRight(TrimLeft(t))

(***************************************************************************)
(* TextDecoder('utf-8').decode(value, {stream: true}).  Bytes "L" "C" are  *)
(* the lead and continuation byte of one two-byte character "LC"; a lead   *)
(* byte at the end of a fragment is kept pending for the next call; a      *)
(* malformed sequence decodes to the replacement character "?".            *)
(***************************************************************************)
RECURSIVE DecodeBytes(_, _, _)
DecodeBytes(pending, bytes, out) ==
    IF bytes = <<>> THEN [text |-> out, pending |-> pending]
    ELSE LET b == Head(bytes) IN
         IF pending
         THEN IF b = "C"
              THEN DecodeBytes(FALSE, Tail(bytes), Append(out, "LC"))
              ELSE DecodeBytes(FALSE, bytes, Append(out, "?"))
         ELSE IF b = "L" THEN DecodeBytes(TRUE, Tail(bytes), out)
         ELSE IF b = "C" THEN DecodeBytes(FALSE, Tail(bytes), Append(out, "?"))
         ELSE DecodeBytes(FALSE, Tail(bytes), Append(out, b))

TextDecode(pending, bytes) ==
    IF ~pending /\ \A i \in DOMAIN bytes : bytes[i] \notin {"L", "C"}
    THEN [text |-> bytes, pending |-> FALSE]      \* single-byte characters only
    ELSE DecodeBytes(pending, bytes, <<>>)

(***************************************************************************)
(* One pass of the read loop's framing: buffer += decode(value);           *)
(* lines = buffer.split('\n'); buffer = lines.pop() || ''.                 *)
(***************************************************************************)
\* framing that restarts the buffer on every read (mutation)
FrameStepDropBuffer(buffer, pending, value) ==
    LET d == TextDecode(pending, value)
        pieces == SplitNL(d.text)
    IN [lines |-> SubSeq(pieces, 1, Len(pieces) - 1),
        buffer |-> pieces[Len(pieces)],
        pending |-> d.pending]

FrameStep(buffer, pending, value) ==
    LET d == TextDecode(pending, value)
        pieces == SplitNL(buffer \o d.text)
        last == pieces[Len(pieces)]
    IN [lines |-> SubSeq(pieces, 1, Len(pieces) - 1),
        buffer |-> IF last = <<>> THEN <<>> ELSE last,
        pending |-> d.pending]

(***************************************************************************)
(* JSON texts on the wire.  Each symbol below is one complete JSON text;   *)
(* two of them side by side, or one next to text that is not JSON, do not  *)
(* parse.  Chunk contents are one-symbol strings so that += is \o.         *)
(***************************************************************************)
Agents == {"A", "B"}

Ev(type, agent, content) ==
    [json |-> "object", type |-> type, agent |-> agent, content |-> content]

NullJSON == [json |-> "null"]

JSONTable ==
    ("sc:A:x" :> Ev("suggestions_chunk", "A", <<"x">>)) @@
    ("sc:A:y" :> Ev("suggestions_chunk", "A", <<"y">>)) @@
    ("sc:B:xy" :> Ev("suggestions_chunk", "B", <<"x", "y">>)) @@
    ("se:A" :> Ev("suggestions_end", "A", <<>>)) @@
    ("se:B" :> Ev("suggestions_end", "B", <<>>)) @@
    ("gc:A:x" :> Ev("generated_code_chunk", "A", <<"x">>)) @@
    ("gc:B:y" :> Ev("generated_code_chunk", "B", <<"y">>)) @@
    ("ste:A" :> Ev("stream_end", "A", <<>>)) @@
    ("err:B" :> Ev("error", "B", <<"e">>)) @@
    ("ping" :> Ev("ping", "A", <<>>)) @@
    ("null" :> NullJSON)

NotJSON == "{not json"

\* the symbols a response body is made of in the session specification
Alphabet == {NL, SP, NotJSON} \cup DOMAIN JSONTable

\* JSON.parse(line): leading and trailing white space is allowed around
\* exactly one JSON text; anything else is a SyntaxError
JSONparse(line) ==
    LET t == Trim(line) IN
    IF Len(t) = 1 /\ t[1] \in DOMAIN JSONTable
    THEN [ok |-> TRUE, value |-> JSONTable[t[1]]]
    ELSE [ok |-> FALSE, value |-> NullJSON]

(***************************************************************************)
(* The page.  chat holds every message element ever created, in creation   *)
(* order; attached says whether it is still a child of #chat.  loaders[id] *)
(* counts the elements of #chat that carry that id.                        *)
(***************************************************************************)
InitialLoader == "initial-loader"
GenerationLoader == "generation-loader"

\* marked.parse: an external pure function of the whole markdown text
Marked(md) == [fmt |-> "html", of |-> md]

RawText(t) == [fmt |-> "text", of |-> t]

\* regen describes the .regenerate-btn of a message element: count says how
\* many of them the element holds, present is what querySelector finds
NoButton ==
    [present |-> FALSE, originalMessage |-> <<>>, isForSuggestions |-> FALSE,
     disabled |-> FALSE, count |-> 0]

\* qs(`#${id}`)?.remove(): removes the first element with that id, if any
hideLoader(d, id) ==
    [d EXCEPT !.loaders[id] = IF @ > 0 THEN @ - 1 ELSE 0]

\* a showLoader that does not remove the loader that is there (mutation)
showLoaderNoHide(d, id) ==
    [d EXCEPT !.loaders[id] = @ + 1]

showLoader(d, id) ==
    LET d1 == hideLoader(d, id) IN
    [d1 EXCEPT !.loaders[id] = @ + 1]

\* mkMsg: appends a new element to #chat; its handle is its index in chat
mkMsg(d, kind, agent, body, cursor) ==
    [d EXCEPT !.chat = Append(@, [kind |-> kind, agent |-> agent, body |-> body,
                                  cursor |-> cursor, regen |-> NoButton,
                                  attached |-> TRUE])]

NewHandle(d) == Len(d.chat) + 1

\* addRegenerateButton without its first line: the new button is appended
\* whether or not the element has one (mutation)
addRegenerateButtonAgain(d, el, originalMessage, isForSuggestions) ==
    [d EXCEPT !.chat[el].regen =
        [present |-> TRUE, originalMessage |-> originalMessage,
         isForSuggestions |-> isForSuggestions, disabled |-> FALSE,
         count |-> @.count + 1]]

addRegenerateButton(d, el, originalMessage, isForSuggestions) ==
    IF d.chat[el].regen.present THEN d
    ELSE [d EXCEPT !.chat[el].regen =
              [present |-> TRUE, originalMessage |-> originalMessage,
               isForSuggestions |-> isForSuggestions, disabled |-> FALSE,
               count |-> @.count + 1]]

\* msgEl.querySelector('.streaming-cursor')?.remove()
removeCursor(d, el) == [d EXCEPT !.chat[el].cursor = FALSE]

(***************************************************************************)
(* initiateFetchAndStream.  A world w is the state one call can touch:     *)
(* w.dom the page, w.cache the module-level lastSuggestions, w.s the       *)
(* call's locals, w.ctl how the current loop iteration leaves ("next",     *)
(* "return", "throw").  Element handles are indices into dom.chat, 0 is    *)
(* null.                                                                   *)
(***************************************************************************)
NoCache == [agent |-> "", content |-> <<>>, isNull |-> TRUE]

CacheOf(agent, content) == [agent |-> agent, content |-> content, isNull |-> FALSE]

\* the locals before any call (state "Idle") and as declared at the top of a
\* call; lines is what the for-of loop over the current read has left
Locals(state, message, cached) ==
    [state |-> state,
     messageToProcess |-> message,
     cachedSuggestion |-> cached,
     suggMsgEl |-> 0, genMsgEl |-> 0,
     suggAccumMd |-> <<>>, genAccumMd |-> <<>>,
     suggAgent |-> "", genAgent |-> "",
     hasReceivedData |-> FALSE,
     suggestionPhaseIsComplete |-> ~cached.isNull,
     buffer |-> <<>>, pending |-> FALSE, lines |-> <<>>]

\* a chunk handler that opens a bubble for every chunk (mutation)
OnSuggestionsChunkAlwaysOpen(w, msg) ==
    LET el == NewHandle(w.dom)
        acc == w.s.suggAccumMd \o msg.content
        d1 == mkMsg(w.dom, "sugg", msg.agent, Marked(<<>>), TRUE)
    IN [w EXCEPT !.dom = [d1 EXCEPT !.chat[el].body = Marked(acc)],
                 !.s.suggAgent = msg.agent,
                 !.s.suggMsgEl = el,
                 !.s.suggAccumMd = acc]

\* a chunk handler that puts the new fragment in front (mutation)
OnSuggestionsChunkPrepend(w, msg) ==
    LET opening == w.s.suggMsgEl = 0
        el == IF opening THEN NewHandle(w.dom) ELSE w.s.suggMsgEl
        acc == msg.content \o w.s.suggAccumMd
        d1 == IF opening
              THEN mkMsg(w.dom, "sugg", msg.agent, Marked(<<>>), TRUE)
              ELSE w.dom
    IN [w EXCEPT !.dom = [d1 EXCEPT !.chat[el].body = Marked(acc)],
                 !.s.suggAgent = IF opening THEN msg.agent ELSE @,
                 !.s.suggMsgEl = el,
                 !.s.suggAccumMd = acc]

\* case 'suggestions_chunk'
OnSuggestionsChunk(w, msg) ==
    LET opening == w.s.suggMsgEl = 0
        el == IF opening THEN NewHandle(w.dom) ELSE w.s.suggMsgEl
        acc == w.s.suggAccumMd \o msg.content
        d1 == IF opening
              THEN mkMsg(w.dom, "sugg", msg.agent, Marked(<<>>), TRUE)
              ELSE w.dom
    IN [w EXCEPT !.dom = [d1 EXCEPT !.chat[el].body = Marked(acc)],
                 !.s.suggAgent = IF opening THEN msg.agent ELSE @,
                 !.s.suggMsgEl = el,
                 !.s.suggAccumMd = acc]

\* an end handler that caches nothing (mutation)
OnSuggestionsEndNoCache(w, msg) ==
    LET el == w.s.suggMsgEl
        d1 == IF el /= 0
              THEN addRegenerateButton(removeCursor(w.dom, el), el,
                                       w.s.messageToProcess, TRUE)
              ELSE w.dom
    IN [w EXCEPT !.dom = showLoader(d1, GenerationLoader),
                 !.s.suggestionPhaseIsComplete = TRUE]

\* an end handler that shows the generation loader only for an open phase
\* (mutation)
OnSuggestionsEndGuarded(w, msg) ==
    LET el == w.s.suggMsgEl IN
    IF el = 0 THEN w
    ELSE [w EXCEPT !.dom = showLoader(
                       addRegenerateButton(removeCursor(w.dom, el), el,
                                           w.s.messageToProcess, TRUE),
                       GenerationLoader),
                   !.cache = CacheOf(msg.agent, w.s.suggAccumMd),
                   !.s.suggestionPhaseIsComplete = TRUE]

\* case 'suggestions_end'
OnSuggestionsEnd(w, msg) ==
    LET el == w.s.suggMsgEl
        d1 == IF el /= 0
              THEN addRegenerateButton(removeCursor(w.dom, el), el,
                                       w.s.messageToProcess, TRUE)
              ELSE w.dom
    IN [w EXCEPT !.dom = showLoader(d1, GenerationLoader),
                 !.cache = IF el /= 0
                           THEN CacheOf(msg.agent, w.s.suggAccumMd)
                           ELSE @,
                 !.s.suggestionPhaseIsComplete = TRUE]

\* a chunk handler that leaves the generation loader on the page (mutation)
OnGeneratedCodeChunkKeepsLoader(w, msg) ==
    LET opening == w.s.genMsgEl = 0
        el == IF opening THEN NewHandle(w.dom) ELSE w.s.genMsgEl
        acc == w.s.genAccumMd \o msg.content
        d1 == IF opening
              THEN mkMsg(w.dom, "code", msg.agent, Marked(<<>>), TRUE)
              ELSE w.dom
    IN [w EXCEPT !.dom = [d1 EXCEPT !.chat[el].body = Marked(acc)],
                 !.s.genAgent = IF opening THEN msg.agent ELSE @,
                 !.s.genMsgEl = el,
                 !.s.genAccumMd = acc]

\* case 'generated_code_chunk'
OnGeneratedCodeChunk(w, msg) ==
    LET d0 == hideLoader(w.dom, GenerationLoader)
        opening == w.s.genMsgEl = 0
        el == IF opening THEN NewHandle(d0) ELSE w.s.genMsgEl
        acc == w.s.genAccumMd \o msg.content
        d1 == IF opening
              THEN mkMsg(d0, "code", msg.agent, Marked(<<>>), TRUE)
              ELSE d0
    IN [w EXCEPT !.dom = [d1 EXCEPT !.chat[el].body = Marked(acc)],
                 !.s.genAgent = IF opening THEN msg.agent ELSE @,
                 !.s.genMsgEl = el,
                 !.s.genAccumMd = acc]

\* case 'stream_end'
OnStreamEnd(w, msg) ==
    LET d0 == hideLoader(w.dom, GenerationLoader)
        el == w.s.genMsgEl
    IN [w EXCEPT !.dom = IF el /= 0
                         THEN addRegenerateButton(removeCursor(d0, el), el,
                                                  w.s.messageToProcess, FALSE)
                         ELSE d0]

\* an error handler that goes on with the next line (mutation)
OnErrorNoReturn(w, msg) ==
    LET d0 == hideLoader(hideLoader(w.dom, InitialLoader), GenerationLoader)
        el == NewHandle(d0)
        d1 == mkMsg(d0, "error", msg.agent, Marked(msg.content), FALSE)
    IN [w EXCEPT !.dom = addRegenerateButton(d1, el, w.s.messageToProcess,
                                             ~w.s.suggestionPhaseIsComplete)]

\* case 'error': ends with return
OnError(w, msg) ==
    LET d0 == hideLoader(hideLoader(w.dom, InitialLoader), GenerationLoader)
        el == NewHandle(d0)
        d1 == mkMsg(d0, "error", msg.agent, Marked(msg.content), FALSE)
    IN [w EXCEPT !.dom = addRegenerateButton(d1, el, w.s.messageToProcess,
                                             ~w.s.suggestionPhaseIsComplete),
                 !.ctl = "return"]

\* a first non-blank line that leaves the initial loader on the page
\* (mutation)
FirstDataKeepsLoader(w) ==
    IF w.s.hasReceivedData THEN w
    ELSE [w EXCEPT !.dom = IF w.s.suggestionPhaseIsComplete
                           THEN showLoader(w.dom, GenerationLoader)
                           ELSE w.dom,
                   !.s.hasReceivedData = TRUE]

\* if (!hasReceivedData) { ... } at the top of a non-blank iteration
FirstData(w) ==
    IF w.s.hasReceivedData THEN w
    ELSE LET d0 == hideLoader(w.dom, InitialLoader) IN
         [w EXCEPT !.dom = IF w.s.suggestionPhaseIsComplete
                           THEN showLoader(d0, GenerationLoader)
                           ELSE d0,
                   !.s.hasReceivedData = TRUE]

\* a switch whose default case throws (mutation)
SwitchDefaultThrows(w, msg) ==
    IF msg.json = "null" THEN [w EXCEPT !.ctl = "throw"]
    ELSE CASE msg.type = "suggestions_chunk" -> OnSuggestionsChunk(w, msg)
           [] msg.type = "suggestions_end" -> OnSuggestionsEnd(w, msg)
           [] msg.type = "generated_code_chunk" -> OnGeneratedCodeChunk(w, msg)
           [] msg.type = "stream_end" -> OnStreamEnd(w, msg)
           [] msg.type = "error" -> OnError(w, msg)
           [] OTHER -> [w EXCEPT !.ctl = "throw"]

\* switch (msg.type); reading .type of null throws a TypeError
Switch(w, msg) ==
    IF msg.json = "null" THEN [w EXCEPT !.ctl = "throw"]
    ELSE CASE msg.type = "suggestions_chunk" -> OnSuggestionsChunk(w, msg)
           [] msg.type = "suggestions_end" -> OnSuggestionsEnd(w, msg)
           [] msg.type = "generated_code_chunk" -> OnGeneratedCodeChunk(w, msg)
           [] msg.type = "stream_end" -> OnStreamEnd(w, msg)
           [] msg.type = "error" -> OnError(w, msg)
           [] OTHER -> w

\* an iteration that takes a blank line for received data (mutation)
IterationBlankCounts(w, line) ==
    IF Trim(line) = <<>> THEN FirstData(w)
    ELSE LET w1 == FirstData(w)
             p == JSONparse(line)
         IN IF p.ok THEN Switch(w1, p.value) ELSE w1

\* an iteration whose JSON.parse is outside any try block (mutation)
IterationParseThrows(w, line) ==
    IF Trim(line) = <<>> THEN w
    ELSE LET w1 == FirstData(w)
             p == JSONparse(line)
         IN IF p.ok THEN Switch(w1, p.value) ELSE [w1 EXCEPT !.ctl = "throw"]

\* one iteration of for (const line of lines)
Iteration(w, line) ==
    IF Trim(line) = <<>> THEN w
    ELSE LET w1 == FirstData(w)
             p == JSONparse(line)
         IN IF p.ok THEN Switch(w1, p.value) ELSE w1

\* a catch block that renders the error without a regenerate button
\* (mutation)
CatchNoButton(w, err) ==
    LET d0 == hideLoader(hideLoader(w.dom, InitialLoader), GenerationLoader)
    IN [w EXCEPT !.dom = mkMsg(d0, "error", "Client", Marked(err), FALSE)]

\* the catch block: err is the thrown error's message
Catch(w, err) ==
    LET d0 == hideLoader(hideLoader(w.dom, InitialLoader), GenerationLoader)
        el == NewHandle(d0)
        d1 == mkMsg(d0, "error", "Client", Marked(err), FALSE)
    IN [w EXCEPT !.dom = addRegenerateButton(d1, el, w.s.messageToProcess,
                                             ~w.s.suggestionPhaseIsComplete)]

\* a finally block that forgets to enable the send button (mutation)
FinallyKeepsDisabled(w, state) ==
    LET d0 == hideLoader(hideLoader(w.dom, InitialLoader), GenerationLoader) IN
    [w EXCEPT !.dom = [d0 EXCEPT !.focused = TRUE],
              !.s.state = state,
              !.s.lines = <<>>]

\* a finally block that leaves the composer as it is (mutation)
FinallyNoRestore(w, state) ==
    [w EXCEPT !.dom = hideLoader(hideLoader(@, InitialLoader), GenerationLoader),
              !.s.state = state,
              !.s.lines = <<>>]

\* the finally block, after which the call is over in the given state
Finally(w, state) ==
    LET d0 == hideLoader(hideLoader(w.dom, InitialLoader), GenerationLoader) IN
    [w EXCEPT !.dom = [d0 EXCEPT !.sendDisabled = FALSE, !.focused = TRUE],
              !.s.state = state,
              !.s.lines = <<>>]

(***************************************************************************)
(* Observer of the lines the read loop dispatches.  It classifies a line   *)
(* by the text alone and records what the response has carried so far; the *)
(* code never reads it.                                                    *)
(***************************************************************************)
IsJSONText(line) == Len(Trim(line)) = 1 /\ Trim(line)[1] \in DOMAIN JSONTable

IsRecord(line) == IsJSONText(line) /\ JSONTable[Trim(line)[1]].json = "object"

IsBlank(line) == Trim(line) = <<>>

RecordOf(line) == JSONTable[Trim(line)[1]]

HasType(line, type) == IsRecord(line) /\ RecordOf(line).type = type

IsChunk(line) ==
    HasType(line, "suggestions_chunk") \/ HasType(line, "generated_code_chunk")

\* neither blank nor a record: text that is not JSON, or JSON that is no record
IsIllFormed(line) == ~IsBlank(line) /\ ~IsRecord(line)

InitHist ==
    [sugg |-> <<>>, gen |-> <<>>, suggAgents |-> {}, chunks |-> 0,
     errAgent |-> "", badAfterFirst |-> FALSE]

Observe(h, line) ==
    IF IsBlank(line) THEN h
    ELSE IF ~IsJSONText(line)
    THEN [h EXCEPT !.badAfterFirst = @ \/ h.chunks = 1]
    ELSE IF ~IsRecord(line) THEN h
    ELSE LET msg == RecordOf(line) IN
         CASE msg.type = "suggestions_chunk" ->
                 [h EXCEPT !.sugg = @ \o msg.content,
                           !.suggAgents = @ \cup {msg.agent},
                           !.chunks = @ + 1]
           [] msg.type = "generated_code_chunk" ->
                 [h EXCEPT !.gen = @ \o msg.content, !.chunks = @ + 1]
           [] msg.type = "error" -> [h EXCEPT !.errAgent = msg.agent]
           [] OTHER -> h

(***************************************************************************)
(* Inputs.                                                                 *)
(***************************************************************************)
\* what the composer may hold when the user sends
Inputs == {<<SP>>, <<"m">>, <<SP, "m", SP>>}

Symbols == Alphabet \ {NL}

\* the second line of a read that carries two lines
Followers == {"sc:A:y", "gc:B:y"}

\* what a read may end with when it ends inside a line
Pieces == {SP, "sc:A:x", "err:B"}

\* a read() result of the session specification: a piece of a line without
\* its newline, one or two newlines, one whole line, or two whole lines
Fragments ==
    {<<t>> : t \in Pieces} \cup {<<NL>>, <<NL, NL>>}
    \cup {<<t, NL>> : t \in Symbols}
    \cup {<<t, NL, u, NL>> : t \in Symbols, u \in Followers}

\* the lines of a response carry at most one JSON text or one piece of other
\* text each, with blanks around it
OneText(line) == Cardinality({i \in DOMAIN line : line[i] /= SP}) <= 1

\* an unterminated line of at most MaxBuf symbols stays in the buffer
Bufferable(buffer) == Len(buffer) <= MaxBuf /\ OneText(buffer)

FetchOutcomes == {"ok", "rejected", "notOk", "noBody"}

DecAlphabet == {"a", NL, "L", "C"}

DecFragments == UNION {[1..n -> DecAlphabet] : n \in 1..MaxDecFrag}

InitDec ==
    [fed |-> <<>>, buffer |-> <<>>, pending |-> FALSE, emitted |-> <<>>,
     done |-> FALSE, cutInside |-> FALSE]

(***************************************************************************)
(* State and actions of one request/response cycle.                        *)
(***************************************************************************)
InitDom ==
    [chat |-> <<>>,
     loaders |-> (InitialLoader :> 0) @@ (GenerationLoader :> 0),
     sendDisabled |-> FALSE,
     focused |-> FALSE]

\* no call made yet; sessions[k] holds the locals of call k, requests[k] the
\* body it posted, reads counts the reads given to all calls
InitMS ==
    [dom |-> InitDom, cache |-> NoCache, sessions |-> <<>>,
     requests |-> <<>>, reads |-> 0]

\* useState([]), useState(''), useState(false); pc is where handleSend waits
InitPage ==
    [messages |-> <<>>, isLoading |-> FALSE, pc |-> "idle", sends |-> 0]

\* the locals of initiateFetchAndStream in main.js
MainLocals(state, message) ==
    [state |-> state, messageToProcess |-> message,
     generationAgent |-> "", generationAccumMd |-> <<>>, generationMsgEl |-> 0,
     buffer |-> <<>>, pending |-> FALSE, lines |-> <<>>, reads |-> 0]

\* the locals of send in part_004; streamMsg 0 is undefined
SendLocals(state) ==
    [state |-> state, generatorName |-> "", streamMsg |-> 0,
     buffer |-> <<>>, pending |-> FALSE, lines |-> <<>>, reads |-> 0]

InitClient(client) ==
    [chat |-> <<>>, sendDisabled |-> FALSE, focused |-> FALSE, cache |-> NoCache,
     s |-> IF client = "main.js" THEN MainLocals("Idle", <<>>)
           ELSE SendLocals("Idle"),
     ctl |-> "next"]

InitAtom ==
    [client |-> "main.js", c |-> InitClient("main.js"),
     prevAgent |-> "", endedSince |-> FALSE]

Init ==
    /\ dom = InitDom
    /\ lastSuggestions = NoCache
    /\ sess = Locals("Idle", <<>>, NoCache)
    /\ hist = InitHist
    /\ dec = InitDec
    /\ ms = InitMS
    /\ page = InitPage
    /\ atom = InitAtom

World == [dom |-> dom, cache |-> lastSuggestions, s |-> sess, ctl |-> "next"]

Commit(w) ==
    /\ dom' = w.dom
    /\ lastSuggestions' = w.cache
    /\ sess' = w.s

\* initiateFetchAndStream up to its first await (the fetch)
StartCall(w, message, cached) ==
    [w EXCEPT !.dom.sendDisabled = TRUE,
              !.s = Locals("Requesting", message, cached)]

\* handleSend, by a click on the send button or by the Enter key
HandleSend(raw, via) ==
    /\ sess.state = "Idle"
    /\ LET text == Trim(raw)
           w0 == [World EXCEPT !.dom.focused = (via = "enter")]
       IN IF text = <<>>
          THEN Commit(w0)
          ELSE LET d1 == mkMsg(w0.dom, "user", "", RawText(text), FALSE)
                   w1 == [w0 EXCEPT !.dom = showLoader(d1, InitialLoader),
                                    !.cache = NoCache]
               IN Commit(StartCall(w1, text, NoCache))
    /\ UNCHANGED <<hist, dec, ms, page, atom>>

\* the fetch settles: rejected, or a response that is not ok or has no body,
\* throws into the catch block
FetchSettle(outcome) ==
    /\ sess.state = "Requesting"
    /\ IF outcome = "ok"
       THEN Commit([World EXCEPT !.s.state = "Streaming"])
       ELSE Commit(Finally(Catch(World, <<outcome>>), "Failed"))
    /\ UNCHANGED <<hist, dec, ms, page, atom>>

\* a read that gives up on a response that brings no complete line
\* (mutation)
ReadChunkIdleTimeout(value) ==
    /\ sess.state = "Streaming"
    /\ sess.lines = <<>>
    /\ LET f == FrameStep(sess.buffer, sess.pending, value) IN
       /\ Bufferable(f.buffer)
       /\ \A i \in DOMAIN f.lines : OneText(f.lines[i])
       /\ hist.chunks
             + Cardinality({i \in DOMAIN f.lines : IsChunk(f.lines[i])}) <= MaxChunks
       /\ IF f.lines = <<>>
          THEN Commit(Finally(Catch(World, <<"timeout">>), "Failed"))
          ELSE /\ sess' = [sess EXCEPT !.buffer = f.buffer, !.pending = f.pending,
                                       !.lines = f.lines]
               /\ UNCHANGED <<dom, lastSuggestions>>
    /\ UNCHANGED <<hist, dec, ms, page, atom>>

\* reader.read() resolves with a value: framing, then the for-of loop starts
ReadChunk(value) ==
    /\ sess.state = "Streaming"
    /\ sess.lines = <<>>
    /\ LET f == FrameStep(sess.buffer, sess.pending, value) IN
       /\ Bufferable(f.buffer)
       /\ \A i \in DOMAIN f.lines : OneText(f.lines[i])
       /\ hist.chunks
             + Cardinality({i \in DOMAIN f.lines : IsChunk(f.lines[i])}) <= MaxChunks
       /\ sess' = [sess EXCEPT !.buffer = f.buffer, !.pending = f.pending,
                               !.lines = f.lines]
    /\ UNCHANGED <<dom, lastSuggestions, hist, dec, ms, page, atom>>

\* one iteration of the for-of loop; a return or a throw runs the handlers
\* that end the call
DispatchLine ==
    /\ sess.state = "Streaming"
    /\ sess.lines /= <<>>
    /\ LET line == Head(sess.lines)
           w == Iteration([World EXCEPT !.s.lines = Tail(@)], line)
       IN CASE w.ctl = "next" -> Commit(w)
            [] w.ctl = "return" -> Commit(Finally(w, "Failed"))
            [] w.ctl = "throw" -> Commit(Finally(Catch(w, <<"TypeError">>), "Failed"))
    /\ hist' = Observe(hist, Head(sess.lines))
    /\ UNCHANGED <<dec, ms, page, atom>>

\* reader.read() resolves with done: break, then finally
ReadDone ==
    /\ sess.state = "Streaming"
    /\ sess.lines = <<>>
    /\ Commit(Finally(World, "Completed"))
    /\ UNCHANGED <<hist, dec, ms, page, atom>>

\* reader.read() rejects: catch, then finally
ReadThrow ==
    /\ sess.state = "Streaming"
    /\ sess.lines = <<>>
    /\ Commit(Finally(Catch(World, <<"network">>), "Failed"))
    /\ UNCHANGED <<hist, dec, ms, page, atom>>

Next ==
    \/ \E raw \in Inputs, via \in {"click", "enter"} : HandleSend(raw, via)
    \/ \E outcome \in FetchOutcomes : FetchSettle(outcome)
    \/ \E value \in Fragments : ReadChunk(value)
    \/ DispatchLine
    \/ ReadDone
    \/ ReadThrow

Spec == Init /\ [][Next]_vars

\* a read() result of SpecLive: one whole line, the start of a line, or the
\* newline that ends it
LiveFragments ==
    {<<t, NL>> : t \in Symbols} \cup {<<"sc:A:x">>, <<NL>>}

NextLive ==
    \/ \E raw \in Inputs, via \in {"click", "enter"} : HandleSend(raw, via)
    \/ \E outcome \in FetchOutcomes : FetchSettle(outcome)
    \/ \E value \in LiveFragments : ReadChunk(value)
    \/ DispatchLine
    \/ ReadDone
    \/ ReadThrow

\* one request/response cycle with a server that answers and a response
\* that ends: the fetch settles, the loop over the lines of a read runs on,
\* and a call that keeps coming back to reader.read() is in the end given
\* end-of-input or an error
SpecLive ==
    /\ Init /\ [][NextLive]_vars
    /\ WF_vars(\E outcome \in FetchOutcomes : FetchSettle(outcome))
    /\ WF_vars(DispatchLine)
    /\ SF_vars(ReadDone \/ ReadThrow)

(***************************************************************************)
(* The frame decoder alone, on raw bytes.                                  *)
(***************************************************************************)
DecRead(value) ==
    /\ ~dec.done
    /\ Len(dec.fed) + Len(value) <= MaxBytes
    /\ LET f == FrameStep(dec.buffer, dec.pending, value) IN
       dec' = [dec EXCEPT !.fed = @ \o value,
                          !.buffer = f.buffer,
                          !.pending = f.pending,
                          !.emitted = @ \o f.lines,
                          !.cutInside = @ \/ dec.buffer /= <<>> \/ dec.pending]
    /\ UNCHANGED <<dom, lastSuggestions, sess, hist, ms, page, atom>>

\* end-of-input: the loop breaks, the buffer is dropped
DecDone ==
    /\ ~dec.done
    /\ dec' = [dec EXCEPT !.done = TRUE]
    /\ UNCHANGED <<dom, lastSuggestions, sess, hist, ms, page, atom>>

NextDecoder ==
    \/ \E value \in DecFragments : DecRead(value)
    \/ DecDone

SpecDecoder == Init /\ [][NextDecoder]_vars

(***************************************************************************)
(* Several calls on one page: the user may send again and may click a      *)
(* regenerate button while earlier calls are still running.  Between two   *)
(* awaits a call runs alone: a read is framed and all its lines are        *)
(* dispatched in one step.  A call fails here by a rejected fetch or by an *)
(* error event; a read that rejects is part of Spec.                       *)
(***************************************************************************)
MaxSessions == 2    \* calls of initiateFetchAndStream on the page
MaxReads == 2       \* reads that return a value, over all calls

SessInputs == {<<"m">>, <<"n", SP>>}

SessEvents == {"se:A", "gc:B:y", "ste:A", "err:B"}

\* a read() result that carries one whole line, or a whole suggestion phase
\* (a chunk and its end event)
SessFragments ==
    {<<t, NL>> : t \in SessEvents} \cup {<<"sc:A:x", NL, "se:A", NL>>}

SessOutcomes == {"ok", "rejected"}

\* cachedSuggestion?.content: the value, or nothing for undefined
Opt(defined, value) == IF defined THEN <<value>> ELSE <<>>

\* the body of the POST
RequestBody(message, cached) ==
    [user_message |-> message,
     cached_suggestions |-> Opt(~cached.isNull, cached.content),
     cached_sugg_agent |-> Opt(~cached.isNull, cached.agent)]

\* a new call of initiateFetchAndStream, up to its fetch
initiateFetchAndStream(M, message, cached) ==
    [M EXCEPT !.dom.sendDisabled = TRUE,
              !.sessions = Append(@, Locals("Requesting", message, cached)),
              !.requests = Append(@, RequestBody(message, cached))]

\* handleSend that keeps the cache (mutation)
handleSendKeepsCache(M, raw, via) ==
    LET text == Trim(raw)
        M0 == [M EXCEPT !.dom.focused = (via = "enter")]
    IN IF text = <<>> THEN M0
       ELSE LET d1 == mkMsg(M0.dom, "user", "", RawText(text), FALSE)
                M1 == [M0 EXCEPT !.dom = showLoader(d1, InitialLoader)]
            IN initiateFetchAndStream(M1, text, NoCache)

\* handleSend
handleSend(M, raw, via) ==
    LET text == Trim(raw)
        M0 == [M EXCEPT !.dom.focused = (via = "enter")]
    IN IF text = <<>> THEN M0
       ELSE LET d1 == mkMsg(M0.dom, "user", "", RawText(text), FALSE)
                M1 == [M0 EXCEPT !.dom = showLoader(d1, InitialLoader),
                                 !.cache = NoCache]
            IN initiateFetchAndStream(M1, text, NoCache)

\* an onclick that leaves the old bubble on the page (mutation)
onclickKeepsBubble(M, el) ==
    LET btn == M.dom.chat[el].regen
        d1 == [M.dom EXCEPT !.chat[el].regen.disabled = TRUE, !.focused = FALSE]
        d2 == showLoader(d1, InitialLoader)
        suggestionsToUse == IF btn.isForSuggestions THEN NoCache ELSE M.cache
    IN initiateFetchAndStream([M EXCEPT !.dom = d2], btn.originalMessage,
                              suggestionsToUse)

\* an onclick that neither disables the button nor removes the bubble
\* (mutation)
onclickLeavesEnabled(M, el) ==
    LET btn == M.dom.chat[el].regen
        d1 == [M.dom EXCEPT !.focused = FALSE]
        d2 == showLoader(d1, InitialLoader)
        suggestionsToUse == IF btn.isForSuggestions THEN NoCache ELSE M.cache
    IN initiateFetchAndStream([M EXCEPT !.dom = d2], btn.originalMessage,
                              suggestionsToUse)

\* an onclick that never passes the cache on (mutation)
onclickWithoutCache(M, el) ==
    LET btn == M.dom.chat[el].regen
        d1 == [M.dom EXCEPT !.chat[el].regen.disabled = TRUE, !.focused = FALSE]
        d2 == showLoader(d1, InitialLoader)
        d3 == [d2 EXCEPT !.chat[el].attached = FALSE]
    IN initiateFetchAndStream([M EXCEPT !.dom = d3], btn.originalMessage, NoCache)

\* btn.onclick of the regenerate button of element el
onclick(M, el) ==
    LET btn == M.dom.chat[el].regen
        d1 == [M.dom EXCEPT !.chat[el].regen.disabled = TRUE, !.focused = FALSE]
        d2 == showLoader(d1, InitialLoader)
        suggestionsToUse == IF btn.isForSuggestions THEN NoCache ELSE M.cache
        d3 == [d2 EXCEPT !.chat[el].attached = FALSE]
    IN initiateFetchAndStream([M EXCEPT !.dom = d3], btn.originalMessage,
                              suggestionsToUse)

\* a call that keeps its phase variables where every call sees them: it
\* works on the elements and accumulators of the first call (mutation)
WorldOfSharedPhase(M, k) ==
    [dom |-> M.dom, cache |-> M.cache,
     s |-> [M.sessions[k] EXCEPT !.suggMsgEl = M.sessions[1].suggMsgEl,
                                 !.suggAccumMd = M.sessions[1].suggAccumMd,
                                 !.genMsgEl = M.sessions[1].genMsgEl,
                                 !.genAccumMd = M.sessions[1].genAccumMd],
     ctl |-> "next"]

\* the state call k can touch, and the page after call k has left w
WorldOf(M, k) ==
    [dom |-> M.dom, cache |-> M.cache, s |-> M.sessions[k], ctl |-> "next"]

Put(M, k, w) ==
    [M EXCEPT !.dom = w.dom, !.cache = w.cache, !.sessions[k] = w.s]

\* the for-of loop over the lines of one read, up to a return or a throw
RECURSIVE RunLines(_, _)
RunLines(w, lines) ==
    IF lines = <<>> THEN w
    ELSE LET w1 == Iteration(w, Head(lines)) IN
         IF w1.ctl = "next" THEN RunLines(w1, Tail(lines)) ELSE w1

\* a call that a failed fetch ends as if the response had ended (mutation)
AfterFetchCompletes(w, outcome) ==
    IF outcome = "ok" THEN [w EXCEPT !.s.state = "Streaming"]
    ELSE Finally(Catch(w, <<outcome>>), "Completed")

\* the call from the await of the fetch to the next await
AfterFetch(w, outcome) ==
    IF outcome = "ok" THEN [w EXCEPT !.s.state = "Streaming"]
    ELSE Finally(Catch(w, <<outcome>>), "Failed")

\* the call from a read that returned value to the next await
AfterRead(w, value) ==
    LET f == FrameStep(w.s.buffer, w.s.pending, value)
        w0 == [w EXCEPT !.s.buffer = f.buffer, !.s.pending = f.pending]
        w1 == RunLines(w0, f.lines)
    IN CASE w1.ctl = "next" -> w1
         [] w1.ctl = "return" -> Finally(w1, "Failed")
         [] w1.ctl = "throw" -> Finally(Catch(w1, <<"TypeError">>), "Failed")

Frame == <<dom, lastSuggestions, sess, hist, dec, page, atom>>

\* a click on the send button (which a disabled button does not deliver) or
\* the Enter key
Send(raw, via) ==
    /\ Len(ms.sessions) < MaxSessions
    /\ via = "click" => ~ms.dom.sendDisabled
    /\ ms' = handleSend(ms, raw, via)
    /\ UNCHANGED Frame

\* a click on the regenerate button of a bubble that is on the page
Regenerate(el) ==
    /\ Len(ms.sessions) < MaxSessions
    /\ el \in DOMAIN ms.dom.chat
    /\ ms.dom.chat[el].attached
    /\ ms.dom.chat[el].regen.present
    /\ ~ms.dom.chat[el].regen.disabled
    /\ ms' = onclick(ms, el)
    /\ UNCHANGED Frame

SessFetchSettle(k, outcome) ==
    /\ k \in DOMAIN ms.sessions
    /\ ms.sessions[k].state = "Requesting"
    /\ ms' = Put(ms, k, AfterFetch(WorldOf(ms, k), outcome))
    /\ UNCHANGED Frame

SessRead(k, value) ==
    /\ k \in DOMAIN ms.sessions
    /\ ms.sessions[k].state = "Streaming"
    /\ ms.reads < MaxReads
    /\ ms' = [Put(ms, k, AfterRead(WorldOf(ms, k), value)) EXCEPT !.reads = @ + 1]
    /\ UNCHANGED Frame

SessReadDone(k) ==
    /\ k \in DOMAIN ms.sessions
    /\ ms.sessions[k].state = "Streaming"
    /\ ms' = Put(ms, k, Finally(WorldOf(ms, k), "Completed"))
    /\ UNCHANGED Frame

NextSessions ==
    \/ \E raw \in SessInputs, via \in {"click", "enter"} : Send(raw, via)
    \/ \E el \in 1..Len(ms.dom.chat) : Regenerate(el)
    \/ \E k \in 1..Len(ms.sessions), outcome \in SessOutcomes : SessFetchSettle(k, outcome)
    \/ \E k \in 1..Len(ms.sessions), value \in SessFragments : SessRead(k, value)
    \/ \E k \in 1..Len(ms.sessions) : SessReadDone(k)

SpecSessions == Init /\ [][NextSessions]_vars

(***************************************************************************)
(* One call followed line by line, started either by a send on the fresh   *)
(* page or by a click on a Regenerate button that passes the cached        *)
(* suggestion on.                                                          *)
(***************************************************************************)
\* the page after a send of "m" whose response brought a suggestion of agent
\* A (chunk x, then suggestions_end) and then an error event of agent B, and
\* after a click on the Regenerate button of the error bubble: the error
\* bubble is off the page and the initial loader is shown
RegeneratedDom ==
    LET button(isForSuggestions, disabled) ==
            [present |-> TRUE, originalMessage |-> <<"m">>,
             isForSuggestions |-> isForSuggestions, disabled |-> disabled,
             count |-> 1]
        bubble(kind, agent, body, regen, attached) ==
            [kind |-> kind, agent |-> agent, body |-> body, cursor |-> FALSE,
             regen |-> regen, attached |-> attached]
    IN [chat |-> << bubble("user", "", RawText(<<"m">>), NoButton, TRUE),
                    bubble("sugg", "A", Marked(<<"x">>), button(TRUE, FALSE), TRUE),
                    bubble("error", "B", Marked(<<"e">>), button(FALSE, TRUE), FALSE) >>,
        loaders |-> (InitialLoader :> 1) @@ (GenerationLoader :> 0),
        sendDisabled |-> TRUE,
        focused |-> FALSE]

\* the call that this click started, at its fetch, with the cache it was given
InitRegenerated ==
    /\ dom = RegeneratedDom
    /\ lastSuggestions = CacheOf("A", <<"x">>)
    /\ sess = Locals("Requesting", <<"m">>, CacheOf("A", <<"x">>))
    /\ hist = InitHist
    /\ dec = InitDec
    /\ ms = InitMS
    /\ page = InitPage
    /\ atom = InitAtom

SpecCalls == (Init \/ InitRegenerated) /\ [][NextLive]_vars

(***************************************************************************)
(* Calls made on a page that an earlier exchange has left behind.          *)
(***************************************************************************)
\* the page after a send of "m" whose response brought a generation chunk of
\* agent B and stream_end and then ended: the code bubble carries the
\* Regenerate button for "m", scoped to generation; no suggestion phase ran
AnsweredDom ==
    LET bubble(kind, agent, body, regen) ==
            [kind |-> kind, agent |-> agent, body |-> body, cursor |-> FALSE,
             regen |-> regen, attached |-> TRUE]
    IN [chat |-> << bubble("user", "", RawText(<<"m">>), NoButton),
                    bubble("code", "B", Marked(<<"y">>),
                           [present |-> TRUE, originalMessage |-> <<"m">>,
                            isForSuggestions |-> FALSE, disabled |-> FALSE,
                            count |-> 1]) >>,
        loaders |-> (InitialLoader :> 0) @@ (GenerationLoader :> 0),
        sendDisabled |-> FALSE,
        focused |-> TRUE]

\* that call has returned and its locals are gone: sessions, requests and
\* reads count the calls made from here on; handleSend had emptied the cache
\* and no suggestions_end has filled it
InitAnswered ==
    /\ dom = InitDom
    /\ lastSuggestions = NoCache
    /\ sess = Locals("Idle", <<>>, NoCache)
    /\ hist = InitHist
    /\ dec = InitDec
    /\ ms = [InitMS EXCEPT !.dom = AnsweredDom]
    /\ page = InitPage
    /\ atom = InitAtom

\* the user goes on with another message, "n", and may click any button
NextFollowUp ==
    \/ \E via \in {"click", "enter"} : Send(<<"n", SP>>, via)
    \/ \E el \in 1..Len(ms.dom.chat) : Regenerate(el)
    \/ \E k \in 1..Len(ms.sessions), outcome \in SessOutcomes : SessFetchSettle(k, outcome)
    \/ \E k \in 1..Len(ms.sessions), value \in SessFragments : SessRead(k, value)
    \/ \E k \in 1..Len(ms.sessions) : SessReadDone(k)

SpecFollowUp == InitAnswered /\ [][NextFollowUp]_vars

(***************************************************************************)
(* The non-streaming client (app/page.tsx): one POST, one JSON object      *)
(* {reply}.  messages is the React state; pc is the await at which         *)
(* handleSend stands: "idle" (not running), "fetch", "json" (res.json() of *)
(* an ok response), "errjson" (res.json() of a response that is not ok).   *)
(***************************************************************************)
MaxSends == 2       \* accepted sends of the non-streaming client

PageInputs == {<<SP>>, <<"m">>, <<SP, "m">>}

\* how the fetch settles
PageOutcomes == {"ok", "notOk", "rejected"}

\* what res.json() gives: an object with the awaited field, an object
\* without it, null, or a rejection because the body is not JSON
PageBodies == {"field", "noField", "null", "notJSON"}

Message(role, text) == [role |-> role, text |-> text]

\* finally that leaves isLoading set (mutation)
pageFinallyKeepsLoading(p) == [p EXCEPT !.pc = "idle"]

\* finally { setIsLoading(false) }
pageFinally(p) == [p EXCEPT !.isLoading = FALSE, !.pc = "idle"]

\* catch (error): error.message || 'Failed to connect to the assistant.'
pageCatch(p, message) ==
    LET text == IF message = "" THEN "Failed to connect to the assistant."
                ELSE message
    IN pageFinally([p EXCEPT !.messages = Append(@, Message("error", text))])

\* handleSend that does not look at isLoading (mutation)
pageHandleSendWhileLoading(p, raw) ==
    IF Trim(raw) = <<>> THEN p
    ELSE [p EXCEPT !.messages = Append(@, Message("user", raw)),
                   !.isLoading = TRUE,
                   !.pc = "fetch",
                   !.sends = @ + 1]

\* handleSend up to the fetch
pageHandleSend(p, raw) ==
    IF Trim(raw) = <<>> \/ p.isLoading THEN p
    ELSE [p EXCEPT !.messages = Append(@, Message("user", raw)),
                   !.isLoading = TRUE,
                   !.pc = "fetch",
                   !.sends = @ + 1]

\* the fetch settled: a rejection is caught, a response is read as JSON
pageAfterFetch(p, outcome, message) ==
    CASE outcome = "rejected" -> pageCatch(p, message)
      [] outcome = "ok" -> [p EXCEPT !.pc = "json"]
      [] outcome = "notOk" -> [p EXCEPT !.pc = "errjson"]

\* const { reply } = await res.json(); then the assistant message
pageAfterJson(p, body) ==
    CASE body = "field" ->
            pageFinally([p EXCEPT !.messages = Append(@, Message("assistant", "reply"))])
      [] body = "noField" ->
            pageFinally([p EXCEPT !.messages = Append(@, Message("assistant", "undefined"))])
      [] body = "null" -> pageCatch(p, "TypeError")
      [] body = "notJSON" -> pageCatch(p, "SyntaxError")

\* errorData = await res.json().catch(() => ({detail: 'Unknown server
\* error'})); throw new Error(errorData.detail || `Error: ${res.status}`)
pageAfterErrorJson(p, body) ==
    CASE body = "field" -> pageCatch(p, "detail")
      [] body = "noField" -> pageCatch(p, "Error: 500")
      [] body = "null" -> pageCatch(p, "TypeError")
      [] body = "notJSON" -> pageCatch(p, "Unknown server error")

PageFrame == <<dom, lastSuggestions, sess, hist, dec, ms, atom>>

PageSend(raw) ==
    /\ page.pc = "idle" \/ page.isLoading
    /\ page.sends < MaxSends
    /\ page' = pageHandleSend(page, raw)
    /\ UNCHANGED PageFrame

PageFetchSettle(outcome, message) ==
    /\ page.pc = "fetch"
    /\ page' = pageAfterFetch(page, outcome, message)
    /\ UNCHANGED PageFrame

PageJsonSettle(body) ==
    /\ page.pc = "json"
    /\ page' = pageAfterJson(page, body)
    /\ UNCHANGED PageFrame

PageErrorJsonSettle(body) ==
    /\ page.pc = "errjson"
    /\ page' = pageAfterErrorJson(page, body)
    /\ UNCHANGED PageFrame

NextPage ==
    \/ \E raw \in PageInputs : PageSend(raw)
    \/ \E outcome \in PageOutcomes, message \in {"", "Failed to fetch"} :
          PageFetchSettle(outcome, message)
    \/ \E body \in PageBodies : PageJsonSettle(body)
    \/ \E body \in PageBodies : PageErrorJsonSettle(body)

SpecPage == Init /\ [][NextPage]_vars

(***************************************************************************)
(* The atomic-suggestion clients: the suggestion arrives whole in one      *)
(* `suggestions` record and only the code is streamed.  atom.client says   *)
(* which file runs: "main.js" (initiateFetchAndStream) or "part_004"       *)
(* (send).  atom.c holds the chat and the call's locals; atom.prevAgent    *)
(* and atom.endedSince observe the dispatched lines (the agent of the last *)
(* generation chunk, and whether a stream_end came after it) and are not   *)
(* read by the code.  The Regenerate buttons of main.js are rendered but   *)
(* not clicked here.                                                       *)
(***************************************************************************)
MaxAtomReads == 3   \* reads that return a value in one call

AtomTable ==
    ("gc:A:x" :> Ev("generated_code_chunk", "A", <<"x">>)) @@
    ("gc:B:y" :> Ev("generated_code_chunk", "B", <<"y">>)) @@
    ("ste:A" :> Ev("stream_end", "A", <<>>)) @@
    ("ste:B" :> Ev("stream_end", "B", <<>>)) @@
    ("sg:A:s" :> Ev("suggestions", "A", <<"s">>)) @@
    ("err:B" :> Ev("error", "B", <<"e">>)) @@
    ("null" :> NullJSON)

\* a read() result: one whole line, or two generation chunks
AtomFragments ==
    {<<t, NL>> : t \in (DOMAIN AtomTable) \cup {SP, NotJSON}}
    \cup {<<"gc:A:x", NL, "gc:B:y", NL>>}

AtomParse(line) ==
    LET t == Trim(line) IN
    IF Len(t) = 1 /\ t[1] \in DOMAIN AtomTable
    THEN [ok |-> TRUE, value |-> AtomTable[t[1]]]
    ELSE [ok |-> FALSE, value |-> NullJSON]

\* innerHTML built by string concatenation, without marked.parse
RawHTML(t) == [fmt |-> "raw", of |-> t]

\* main.js: handleSend and initiateFetchAndStream up to the fetch
mainHandleSend(c, raw) ==
    LET text == Trim(raw) IN
    IF text = <<>> THEN c
    ELSE [mkMsg(c, "user", "", RawText(text), FALSE)
             EXCEPT !.sendDisabled = TRUE,
                    !.s = MainLocals("Requesting", text)]

\* main.js: the catch inside the loop (parse error, or msg.type of null)
mainLineCatch(c, err) ==
    LET el == NewHandle(c)
        c1 == mkMsg(c, "error", "Client", Marked(err), FALSE)
    IN addRegenerateButton(c1, el, c.s.messageToProcess, FALSE)

\* main.js: the generated_code_chunk branch
mainOnGeneratedCodeChunk(c, msg) ==
    LET opening == c.s.generationMsgEl = 0
        el == IF opening THEN NewHandle(c) ELSE c.s.generationMsgEl
        acc == c.s.generationAccumMd \o msg.content
        c1 == IF opening
              THEN mkMsg(c, "code", msg.agent, Marked(<<>>), TRUE)
              ELSE c
    IN [c1 EXCEPT !.chat[el].body = Marked(acc),
                  !.s.generationAgent = IF opening THEN msg.agent ELSE @,
                  !.s.generationMsgEl = el,
                  !.s.generationAccumMd = acc]

\* main.js: the stream_end branch
mainOnStreamEnd(c, msg) ==
    LET el == c.s.generationMsgEl IN
    IF msg.agent = c.s.generationAgent /\ el /= 0
    THEN [removeCursor(c, el) EXCEPT !.s.generationMsgEl = 0,
                                     !.s.generationAccumMd = <<>>,
                                     !.s.generationAgent = ""]
    ELSE c

\* main.js: one iteration of for (const line of lines)
mainIteration(c, line) ==
    IF Trim(line) = <<>> THEN c
    ELSE LET p == AtomParse(line)
             msg == p.value
         IN IF ~p.ok THEN mainLineCatch(c, <<"SyntaxError">>)
            ELSE IF msg.json = "null" THEN mainLineCatch(c, <<"TypeError">>)
            ELSE CASE msg.type = "suggestions" ->
                        [mkMsg(c, "sugg", msg.agent, Marked(msg.content), FALSE)
                            EXCEPT !.cache = CacheOf(msg.agent, msg.content)]
                   [] msg.type = "generated_code_chunk" ->
                        mainOnGeneratedCodeChunk(c, msg)
                   [] msg.type = "stream_end" -> mainOnStreamEnd(c, msg)
                   [] msg.type = "error" ->
                        addRegenerateButton(
                            mkMsg(c, "error", msg.agent, Marked(msg.content), FALSE),
                            NewHandle(c), c.s.messageToProcess, FALSE)
                   [] OTHER -> c

\* main.js: the outer catch
mainCatch(c, err) ==
    LET el == NewHandle(c)
        c1 == mkMsg(c, "error", "Client", Marked(err), FALSE)
    IN addRegenerateButton(c1, el, c.s.messageToProcess, FALSE)

\* main.js: the flush after the loop
mainFlush(c) ==
    IF c.s.generationMsgEl /= 0 THEN removeCursor(c, c.s.generationMsgEl) ELSE c

\* part_004: send up to the fetch
sendStart(c, raw) ==
    LET text == Trim(raw) IN
    IF text = <<>> THEN c
    ELSE [mkMsg(c, "user", "", RawHTML(text), FALSE)
             EXCEPT !.sendDisabled = TRUE,
                    !.s = SendLocals("Requesting")]

\* part_004: the generated_code_chunk branch
sendOnGeneratedCodeChunk(c, msg) ==
    LET opening == c.s.generatorName /= msg.agent
        el == IF opening THEN NewHandle(c) ELSE c.s.streamMsg
        c1 == IF opening
              THEN mkMsg(c, "code", msg.agent, RawHTML(<<>>), TRUE)
              ELSE c
    IN [c1 EXCEPT !.chat[el].body = RawHTML(@.of \o msg.content),
                  !.s.generatorName = msg.agent,
                  !.s.streamMsg = el]

\* part_004: one iteration of for(const line of lines); JSON.parse and
\* msg.type of null throw to the catch of send
sendIteration(c, line) ==
    IF Trim(line) = <<>> THEN c
    ELSE LET p == AtomParse(line)
             msg == p.value
         IN IF ~p.ok \/ msg.json = "null" THEN [c EXCEPT !.ctl = "throw"]
            ELSE CASE msg.type = "suggestions" ->
                        mkMsg(c, "sugg", msg.agent, RawHTML(msg.content), FALSE)
                   [] msg.type = "generated_code_chunk" ->
                        sendOnGeneratedCodeChunk(c, msg)
                   [] msg.type = "error" ->
                        mkMsg(c, "error", msg.agent, RawHTML(msg.content), FALSE)
                   [] OTHER -> c

\* part_004: the catch of send
sendCatch(c, err) == mkMsg(c, "error", "Client", RawHTML(err), FALSE)

\* part_004: if(streamMsg){ streamMsg.querySelector('.streaming').remove(); }
sendFlush(c) ==
    IF c.s.streamMsg /= 0 THEN removeCursor(c, c.s.streamMsg) ELSE c

\* both files: the finally block
atomFinally(c, state) ==
    [c EXCEPT !.sendDisabled = FALSE, !.focused = TRUE,
              !.s.state = state, !.s.lines = <<>>, !.ctl = "next"]

IsMain == atom.client = "main.js"

AtomFrame == <<dom, lastSuggestions, sess, hist, dec, ms, page>>

AtomSend(raw) ==
    /\ atom.c.s.state = "Idle"
    /\ atom' = [atom EXCEPT !.c = IF IsMain THEN mainHandleSend(@, raw)
                                  ELSE sendStart(@, raw)]
    /\ UNCHANGED AtomFrame

\* the fetch settles; a response without a body throws
AtomFetchSettle(outcome) ==
    /\ atom.c.s.state = "Requesting"
    /\ atom' = [atom EXCEPT !.c =
                   IF outcome = "ok" THEN [@ EXCEPT !.s.state = "Streaming"]
                   ELSE atomFinally(IF IsMain THEN mainCatch(@, <<outcome>>)
                                    ELSE sendCatch(@, <<outcome>>), "Failed")]
    /\ UNCHANGED AtomFrame

\* reader.read() resolves with a value: framing
AtomRead(value) ==
    /\ atom.c.s.state = "Streaming"
    /\ atom.c.s.lines = <<>>
    /\ atom.c.s.reads < MaxAtomReads
    /\ LET f == FrameStep(atom.c.s.buffer, atom.c.s.pending, value) IN
       atom' = [atom EXCEPT !.c.s.buffer = f.buffer, !.c.s.pending = f.pending,
                            !.c.s.lines = f.lines, !.c.s.reads = @ + 1]
    /\ UNCHANGED AtomFrame

\* the observer of the dispatched lines
AtomObserve(a, line) ==
    LET p == AtomParse(line) IN
    IF Trim(line) = <<>> \/ ~p.ok \/ p.value.json = "null" THEN a
    ELSE CASE p.value.type = "generated_code_chunk" ->
                 [a EXCEPT !.prevAgent = p.value.agent, !.endedSince = FALSE]
           [] p.value.type = "stream_end" -> [a EXCEPT !.endedSince = TRUE]
           [] OTHER -> a

\* one iteration of the loop over the lines of a read
AtomDispatch ==
    /\ atom.c.s.state = "Streaming"
    /\ atom.c.s.lines /= <<>>
    /\ LET line == Head(atom.c.s.lines)
           c0 == [atom.c EXCEPT !.s.lines = Tail(@)]
           c1 == IF IsMain THEN mainIteration(c0, line) ELSE sendIteration(c0, line)
           c2 == IF c1.ctl = "throw"
                 THEN atomFinally(sendCatch(c1, <<"SyntaxError">>), "Failed")
                 ELSE c1
       IN atom' = [AtomObserve(atom, line) EXCEPT !.c = c2]
    /\ UNCHANGED AtomFrame

\* reader.read() resolves with done: break, flush, finally
AtomReadDone ==
    /\ atom.c.s.state = "Streaming"
    /\ atom.c.s.lines = <<>>
    /\ atom' = [atom EXCEPT !.c = atomFinally(IF IsMain THEN mainFlush(@)
                                              ELSE sendFlush(@), "Completed")]
    /\ UNCHANGED AtomFrame

NextAtomic ==
    \/ \E raw \in SessInputs : AtomSend(raw)
    \/ \E outcome \in {"ok", "rejected", "noBody"} : AtomFetchSettle(outcome)
    \/ \E value \in AtomFragments : AtomRead(value)
    \/ AtomDispatch
    \/ AtomReadDone

\* either file on its fresh page
InitAtomic ==
    /\ dom = InitDom
    /\ lastSuggestions = NoCache
    /\ sess = Locals("Idle", <<>>, NoCache)
    /\ hist = InitHist
    /\ dec = InitDec
    /\ ms = InitMS
    /\ page = InitPage
    /\ \E client \in {"main.js", "part_004"} :
          atom = [client |-> client, c |-> InitClient(client),
                  prevAgent |-> "", endedSince |-> FALSE]

SpecAtomic == InitAtomic /\ [][NextAtomic]_vars

(***************************************************************************)
(* Properties.                                                             *)
(***************************************************************************)
Terminal == {"Completed", "Failed"}

\* the loop is about to run an iteration on this line
Dispatching == sess.state = "Streaming" /\ sess.lines /= <<>>

CurrentLine == Head(sess.lines)

Bubbles(d, kind) == {i \in DOMAIN d.chat : d.chat[i].kind = kind}

OpenBubbles(d, kind) == {i \in Bubbles(d, kind) : d.chat[i].cursor}

AllButLast(q) == SubSeq(q, 1, Len(q) - 1)

\* C1: the lines handed to the dispatcher are, in order, the pieces of the
\* whole decoded text split on newline without the last piece, however the
\* bytes were cut into reads; the unterminated remainder is never handed
\* over, not even at end-of-input.
C1_FramingIsCutInvariant ==
    LET pieces == SplitNL(TextDecode(FALSE, dec.fed).text) IN
    /\ dec.emitted = AllButLast(pieces)
    /\ dec.buffer = pieces[Len(pieces)]

C1_Witness ==
    /\ dec.done
    /\ dec.cutInside
    /\ Len(dec.emitted) >= 2
    /\ dec.buffer /= <<>>

\* C2: when suggestions_end is dispatched after k >= 1 suggestions_chunk
\* events that all carry the agent of the end event, there is afterwards
\* exactly one suggestion bubble, it has no streaming cursor, and the cache
\* holds that agent and the concatenation of the chunk contents.
C2_SuggestionsEndFinalizes ==
    [][(/\ Dispatching
        /\ HasType(CurrentLine, "suggestions_end")
        /\ hist.sugg /= <<>>
        /\ hist.suggAgents = {RecordOf(CurrentLine).agent})
       => (/\ Cardinality(Bubbles(dom', "sugg")) = 1
           /\ OpenBubbles(dom', "sugg") = {}
           /\ lastSuggestions' = CacheOf(RecordOf(CurrentLine).agent, hist.sugg))]_vars

C2_Witness ==
    /\ sess.state = "Streaming"
    /\ hist.suggAgents = {"A"}
    /\ hist.sugg = <<"x", "y">>
    /\ lastSuggestions = CacheOf("A", <<"x", "y">>)
    /\ Cardinality(Bubbles(dom, "sugg")) = 1
    /\ OpenBubbles(dom, "sugg") = {}

\* C3: at every moment the text rendered in a phase's bubble is the
\* rendering of the concatenation, in arrival order, of the chunk contents
\* dispatched so far for that phase, so it depends on the concatenation
\* only and not on how it was cut into chunks.
C3_RenderedIsConcatenation ==
    /\ \A i \in Bubbles(dom, "sugg") : dom.chat[i].body = Marked(hist.sugg)
    /\ \A i \in Bubbles(dom, "code") : dom.chat[i].body = Marked(hist.gen)
    /\ hist.sugg /= <<>> => Bubbles(dom, "sugg") /= {}
    /\ hist.gen /= <<>> => Bubbles(dom, "code") /= {}

\* the same text "xy" received as one chunk from B, finalized
C3_Witness ==
    /\ hist.suggAgents = {"B"}
    /\ hist.chunks = 1
    /\ \E i \in Bubbles(dom, "sugg") :
          /\ dom.chat[i].body = Marked(<<"x", "y">>)
          /\ ~dom.chat[i].cursor

\* C4: a line that is not JSON changes no accumulator and does not end the
\* session: the loop goes on with the next line, and the accumulators hold
\* the contents of every valid chunk dispatched before and after it, in
\* order.
C4_MalformedLineIsSkipped ==
    /\ [](sess.suggAccumMd = hist.sugg /\ sess.genAccumMd = hist.gen)
    /\ [][(Dispatching /\ ~IsBlank(CurrentLine) /\ ~IsJSONText(CurrentLine))
          => (/\ sess'.state = "Streaming"
              /\ sess'.lines = Tail(sess.lines)
              /\ sess'.suggAccumMd = sess.suggAccumMd
              /\ sess'.genAccumMd = sess.genAccumMd)]_vars

\* a chunk, then a line that is not JSON, then a second chunk
C4_Witness ==
    /\ sess.state = "Streaming"
    /\ hist.badAfterFirst
    /\ hist.chunks = 2
    /\ Len(sess.suggAccumMd) + Len(sess.genAccumMd) >= 2

\* the fields of the locals that make up the two phase states
PhaseState(l) ==
    <<l.suggMsgEl, l.suggAgent, l.suggAccumMd, l.genMsgEl, l.genAgent,
      l.genAccumMd>>

\* C5 (as claimed): a line that does not decode to a well-formed record,
\* whether it is not JSON or is JSON that is no record (null), is discarded:
\* the phase states, the cache and the bubbles are unchanged and the session
\* is still Streaming.
C5_IllFormedLineIsDiscarded ==
    [][(Dispatching /\ IsIllFormed(CurrentLine))
       => (/\ sess'.state = "Streaming"
           /\ PhaseState(sess') = PhaseState(sess)
           /\ lastSuggestions' = lastSuggestions
           /\ dom'.chat = dom.chat)]_vars

\* C6: when an error event is dispatched, one error bubble with the event's
\* agent is appended and nothing else in the chat changes, no loader is left,
\* the rest of the read is dropped and the call is over, so that no later
\* line of the response is dispatched or changes anything (the loop and the
\* reads run only while the session is Streaming).
C6_ErrorEventEndsSession ==
    [][(Dispatching /\ HasType(CurrentLine, "error"))
       => (/\ Len(dom'.chat) = Len(dom.chat) + 1
           /\ SubSeq(dom'.chat, 1, Len(dom.chat)) = dom.chat
           /\ dom'.chat[Len(dom'.chat)].kind = "error"
           /\ dom'.chat[Len(dom'.chat)].agent = RecordOf(CurrentLine).agent
           /\ dom'.loaders[InitialLoader] = 0
           /\ dom'.loaders[GenerationLoader] = 0
           /\ sess'.state = "Failed"
           /\ sess'.lines = <<>>
           /\ PhaseState(sess') = PhaseState(sess)
           /\ lastSuggestions' = lastSuggestions)]_vars

C6_Witness ==
    /\ sess.state = "Failed"
    /\ hist.errAgent = "B"
    /\ hist.chunks = 1
    /\ Cardinality(Bubbles(dom, "error")) = 1
    /\ \A i \in Bubbles(dom, "error") : dom.chat[i].agent = "B"
    /\ dom.loaders[InitialLoader] = 0
    /\ dom.loaders[GenerationLoader] = 0

\* C7 (as claimed): in a terminal state no bubble carries a streaming cursor.
C7_NoDanglingCursor ==
    sess.state \in Terminal => \A i \in DOMAIN dom.chat : ~dom.chat[i].cursor

\* C8: in every terminal state, reached by whatever path, the send button is
\* enabled, no loader is present and the composer has the focus.
C8_TerminalRestoresComposer ==
    sess.state \in Terminal
    => (/\ ~dom.sendDisabled
        /\ dom.loaders[InitialLoader] = 0
        /\ dom.loaders[GenerationLoader] = 0
        /\ dom.focused)

\* the call ended by an exception thrown while dispatching, after a click
C8_Witness ==
    /\ sess.state = "Failed"
    /\ \E i \in Bubbles(dom, "error") :
          dom.chat[i].body = Marked(<<"TypeError">>)
    /\ ~dom.sendDisabled
    /\ dom.focused

\* an end event is being dispatched for a phase that has no bubble, that is,
\* for which no chunk arrived in this call
EndOfUnopened(type) ==
    /\ Dispatching
    /\ HasType(CurrentLine, type)
    /\ IF type = "suggestions_end" THEN sess.suggMsgEl = 0 ELSE sess.genMsgEl = 0

\* C9 (as claimed): suggestions_end or stream_end for a phase that never
\* received a chunk is a no-op: bubbles, both loaders, phase state and cache
\* are as before and the session does not fail.  Stated for an event that is
\* not the first line of the response, so that only the event's own handler
\* acts.
C9_EndOfUnopenedIsNoOp ==
    [][(/\ sess.hasReceivedData
        /\ EndOfUnopened("suggestions_end") \/ EndOfUnopened("stream_end"))
       => (/\ dom' = dom
           /\ PhaseState(sess') = PhaseState(sess)
           /\ lastSuggestions' = lastSuggestions
           /\ sess'.state = "Streaming")]_vars

\* what an end event of an unopened phase leaves alone: the bubbles, the
\* composer, the phase states, the cache, and the session goes on; the
\* initial loader is removed only by the first line of a response
EndKeeps ==
    /\ dom'.chat = dom.chat
    /\ dom'.sendDisabled = dom.sendDisabled
    /\ dom'.focused = dom.focused
    /\ PhaseState(sess') = PhaseState(sess)
    /\ lastSuggestions' = lastSuggestions
    /\ sess'.state = "Streaming"
    /\ dom'.loaders[InitialLoader]
          = IF sess.hasReceivedData THEN dom.loaders[InitialLoader] ELSE 0

\* C9 (amended): such an end event changes no bubble, no phase state and
\* not the cache, and the session does not fail; the loaders do change:
\* suggestions_end marks the suggestion phase complete and shows the
\* generation loader, stream_end removes the generation loader.
C9_EndOfUnopenedKeepsBubbles ==
    /\ [][EndOfUnopened("suggestions_end")
          => (/\ EndKeeps
              /\ sess'.suggestionPhaseIsComplete
              /\ dom'.loaders[GenerationLoader] = 1)]_vars
    /\ [][EndOfUnopened("stream_end")
          => (/\ EndKeeps
              /\ sess'.suggestionPhaseIsComplete = sess.suggestionPhaseIsComplete
              /\ dom'.loaders[GenerationLoader] = 0)]_vars

\* suggestions_end was dispatched though no suggestion chunk ever arrived
C9_Witness ==
    /\ sess.state = "Streaming"
    /\ sess.lines = <<>>
    /\ hist.sugg = <<>>
    /\ sess.suggMsgEl = 0
    /\ sess.suggestionPhaseIsComplete
    /\ dom.loaders[GenerationLoader] = 1
    /\ Bubbles(dom, "sugg") = {}
    /\ lastSuggestions.isNull

\* C10: for each phase at most one bubble is open (carries the streaming
\* cursor) at any moment, whatever the order of chunk and end events.
C10_OneOpenBubblePerPhase ==
    /\ Cardinality(OpenBubbles(dom, "sugg")) <= 1
    /\ Cardinality(OpenBubbles(dom, "code")) <= 1

\* two chunks of one phase went into the one open bubble
C10_Witness ==
    /\ hist.suggAgents = {"A"}
    /\ hist.chunks = 2
    /\ hist.sugg = <<"x", "y">>
    /\ Cardinality(OpenBubbles(dom, "sugg")) = 1
    /\ Cardinality(Bubbles(dom, "sugg")) = 1

\* the last bubble of the chat
LastBubble(d) == d.chat[Len(d.chat)]

\* chat c2 is chat c1 with exactly one bubble appended
OneAppended(c1, c2) == Len(c2) = Len(c1) + 1 /\ SubSeq(c2, 1, Len(c1)) = c1

\* C11: when the fetch is rejected, or the response is not ok or has no
\* body, the session goes from Requesting to Failed, no line is dispatched,
\* exactly one bubble is appended, it is an error bubble, and it carries an
\* enabled regenerate button for the message of the call.
C11_FetchFailureFails ==
    [][\A outcome \in FetchOutcomes \ {"ok"} :
          (sess.state = "Requesting" /\ FetchSettle(outcome))
          => (/\ sess'.state = "Failed"
              /\ hist' = hist
              /\ PhaseState(sess') = PhaseState(sess)
              /\ ~sess'.hasReceivedData
              /\ OneAppended(dom.chat, dom'.chat)
              /\ LastBubble(dom').kind = "error"
              /\ LastBubble(dom').attached
              /\ LastBubble(dom').regen.present
              /\ ~LastBubble(dom').regen.disabled
              /\ LastBubble(dom').regen.originalMessage = sess.messageToProcess)]_vars

\* the response was not ok: the call failed before any read
C11_Witness ==
    /\ sess.state = "Failed"
    /\ ~sess.hasReceivedData
    /\ hist = InitHist
    /\ Cardinality(Bubbles(dom, "error")) = 1
    /\ LastBubble(dom).body = Marked(<<"notOk">>)
    /\ LastBubble(dom).regen.present
    /\ LastBubble(dom).regen.originalMessage = <<"m">>

(***************************************************************************)
(* Properties of several calls on one page (SpecSessions).                 *)
(***************************************************************************)
Active(l) == l.state \in {"Requesting", "Streaming"}

\* this step is a click on the regenerate button of element el: only
\* onclick takes a bubble off the page
Clicked(el) == ms.dom.chat[el].attached /\ ~ms'.dom.chat[el].attached

\* this step started a call; the call and the body it posted
Started == Len(ms'.sessions) = Len(ms.sessions) + 1

NewSession == ms'.sessions[Len(ms'.sessions)]

NewRequest == ms'.requests[Len(ms'.requests)]

CarriesCache(request) ==
    request.cached_suggestions /= <<>> /\ request.cached_sugg_agent /= <<>>

SuggBubbleCount(d) == Cardinality(Bubbles(d, "sugg"))

\* C12 (as claimed): every regenerate click made while the cache is
\* populated posts cached_suggestions and cached_sugg_agent equal to the
\* cache, and a call started with a cached suggestion never has a
\* suggestion bubble.
C12_RegenerateSendsCache ==
    /\ [][\A el \in DOMAIN ms.dom.chat :
             (Clicked(el) /\ ~ms.cache.isNull)
             => (/\ NewRequest.cached_suggestions = <<ms.cache.content>>
                 /\ NewRequest.cached_sugg_agent = <<ms.cache.agent>>)]_vars
    /\ [](\A k \in DOMAIN ms.sessions :
             ~ms.sessions[k].cachedSuggestion.isNull => ms.sessions[k].suggMsgEl = 0)

\* C12 (amended): a click on a regenerate button scoped to generation posts
\* the original message with the cache as it is at that moment, and the call
\* starts with the suggestion phase complete exactly when the cache is
\* populated; a click on a button scoped to suggestions posts no cached
\* suggestion; the click itself renders no suggestion bubble, which only a
\* suggestions_chunk read by a call does.
C12_GenerationRegenerateSendsCache ==
    /\ [][\A el \in DOMAIN ms.dom.chat :
             Clicked(el)
             => LET btn == ms.dom.chat[el].regen
                    used == IF btn.isForSuggestions THEN NoCache ELSE ms.cache
                IN /\ Started
                   /\ NewRequest = RequestBody(btn.originalMessage, used)
                   /\ CarriesCache(NewRequest)
                         = (~btn.isForSuggestions /\ ~ms.cache.isNull)
                   /\ NewSession.suggestionPhaseIsComplete = ~used.isNull
                   /\ NewSession.suggMsgEl = 0
                   /\ ms'.cache = ms.cache]_vars
    /\ [][SuggBubbleCount(ms'.dom) /= SuggBubbleCount(ms.dom)
          => ms'.reads = ms.reads + 1]_vars

\* a generation-scoped regenerate was clicked with the cache populated
C12_Witness ==
    /\ Len(ms.sessions) = 2
    /\ ms.cache = CacheOf("A", <<"x">>)
    /\ ms.requests[2].cached_suggestions = <<<<"x">>>>
    /\ ms.requests[2].cached_sugg_agent = <<"A">>
    /\ ms.sessions[2].suggestionPhaseIsComplete
    /\ \E el \in DOMAIN ms.dom.chat :
          /\ ~ms.dom.chat[el].attached
          /\ ~ms.dom.chat[el].regen.isForSuggestions

\* call k ends as Failed in this step
Fails(k) == Active(ms.sessions[k]) /\ ms'.sessions[k].state = "Failed"

\* C13 (as claimed): the regenerate button of an error bubble is scoped to
\* suggestions exactly when the call had not completed the suggestion phase
\* before the error; a click on it then posts no cached suggestion, and
\* otherwise posts the cached suggestion, so that only generation is
\* replayed.
C13_ErrorRegenerateReplayMode ==
    /\ [][\A k \in DOMAIN ms.sessions :
             Fails(k)
             => (/\ OneAppended(ms.dom.chat, ms'.dom.chat)
                 /\ LastBubble(ms'.dom).kind = "error"
                 /\ LastBubble(ms'.dom).regen.present
                 /\ LastBubble(ms'.dom).regen.isForSuggestions
                       = ~ms.sessions[k].suggestionPhaseIsComplete)]_vars
    /\ [][\A el \in DOMAIN ms.dom.chat :
             (Clicked(el) /\ ms.dom.chat[el].kind = "error")
             => IF ms.dom.chat[el].regen.isForSuggestions
                THEN ~CarriesCache(NewRequest)
                ELSE CarriesCache(NewRequest)]_vars

\* C14: a step that starts a call by a send leaves the cache empty; a step
\* that starts a call by a regenerate click leaves the cache as it was.
C14_SendEmptiesCache ==
    [][Started
       => IF \E el \in DOMAIN ms.dom.chat : Clicked(el)
          THEN ms'.cache = ms.cache
          ELSE ms'.cache = NoCache /\ ~CarriesCache(NewRequest)]_vars

\* a second message was sent after the first call had filled the cache
C14_Witness ==
    /\ Len(ms.sessions) = 2
    /\ ms.cache.isNull
    /\ ms.sessions[1].suggAccumMd = <<"x">>
    /\ ms.sessions[1].suggestionPhaseIsComplete
    /\ ms.requests[2].user_message = <<"n">>
    /\ \A el \in DOMAIN ms.dom.chat : ms.dom.chat[el].attached
    /\ \E el \in Bubbles(ms.dom, "sugg") : ms.dom.chat[el].regen.present

\* stream_end is dispatched by call k while its generation bubble is open
ClosesGeneration(k) ==
    /\ ms.sessions[k].genMsgEl /= 0
    /\ ms.dom.chat[ms.sessions[k].genMsgEl].cursor
    /\ ~ms'.dom.chat[ms.sessions[k].genMsgEl].cursor

\* C15 (as claimed): after stream_end closes an open generation phase the
\* generation bubble has no cursor and one regenerate button, scoped to
\* generation, for the call's message; a click on the button of a
\* generation bubble posts that message together with the cached suggestion.
C15_StreamEndRegenerateUsesCache ==
    /\ [][\A k \in DOMAIN ms.sessions :
             ClosesGeneration(k)
             => LET b == ms'.dom.chat[ms.sessions[k].genMsgEl] IN
                /\ b.regen.present
                /\ ~b.regen.disabled
                /\ ~b.regen.isForSuggestions
                /\ b.regen.originalMessage = ms.sessions[k].messageToProcess]_vars
    /\ [][\A el \in DOMAIN ms.dom.chat :
             (Clicked(el) /\ ms.dom.chat[el].kind = "code")
             => (/\ NewRequest.user_message = ms.dom.chat[el].regen.originalMessage
                 /\ CarriesCache(NewRequest))]_vars

\* C16: a call starts Requesting, goes from Requesting to Streaming or
\* Failed and from Streaming to Completed or Failed; it dispatches events
\* (its locals other than the state change) only while Streaming; and once
\* Completed or Failed nothing of the call changes again, whatever other
\* calls do.
C16_SessionStateMachine ==
    /\ [][Started => NewSession.state = "Requesting"]_vars
    /\ [][\A k \in DOMAIN ms.sessions :
             LET l == ms.sessions[k]
                 n == ms'.sessions[k]
             IN /\ l.state = "Requesting"
                   => (/\ n.state \in {"Requesting", "Streaming", "Failed"}
                       /\ [n EXCEPT !.state = l.state] = l)
                /\ l.state = "Streaming"
                   => n.state \in {"Streaming", "Completed", "Failed"}
                /\ l.state \in Terminal => n = l
                /\ l.state \notin {"Requesting", "Streaming"} \cup Terminal => FALSE]_vars

\* one call failed before streaming, another completed after a chunk
C16_Witness ==
    /\ Len(ms.sessions) = 2
    /\ ms.sessions[1].state = "Completed"
    /\ ms.sessions[1].genAccumMd = <<"y">>
    /\ ms.sessions[2].state = "Failed"
    /\ ~ms.sessions[2].hasReceivedData

\* C18 (as claimed): while some call is Requesting or Streaming the send
\* button is disabled.
C18_SendDisabledWhileActive ==
    (\E k \in DOMAIN ms.sessions : Active(ms.sessions[k])) => ms.dom.sendDisabled

\* C20 (as claimed): a regenerate click cancels the calls that are still
\* running, so that none of them is Requesting or Streaming any more, and no
\* bubble changes once it has been taken off the page.
C20_RegenerateCancelsEarlier ==
    /\ [][\A el \in DOMAIN ms.dom.chat :
             Clicked(el)
             => \A j \in DOMAIN ms.sessions : ~Active(ms'.sessions[j])]_vars
    /\ [][\A el \in DOMAIN ms.dom.chat :
             ~ms.dom.chat[el].attached => ms'.dom.chat[el] = ms.dom.chat[el]]_vars

\* C17: if the fetch settles, every read is answered and the response ends,
\* a call that has been started reaches Completed or Failed with the send
\* button enabled.
C17_SessionTerminates ==
    (sess.state = "Requesting") ~> (sess.state \in Terminal /\ ~dom.sendDisabled)

\* a call that streamed two chunks and then completed
C17_Witness ==
    /\ sess.state = "Completed"
    /\ hist.chunks = 2
    /\ ~dom.sendDisabled

(***************************************************************************)
(* Properties of the non-streaming client (SpecPage).                      *)
(***************************************************************************)
\* this step ends a run of handleSend
PageSettles == page.pc /= "idle" /\ page'.pc = "idle"

LastMessage(p) == p.messages[Len(p.messages)]

Ran(k) ==
    /\ Len(ms'.sessions) = Len(ms.sessions)
    /\ ms'.sessions[k] /= ms.sessions[k]

\* the call started last: every start shows the initial loader, so an initial
\* loader on the page was shown for this call
Latest == Len(ms.sessions)

\* C21 (as claimed): a step of one call does not take away a loading
\* indicator of another call: neither the initial loader while the call
\* started last is another one that is still running, nor a generation
\* loader when the stepping call has not reached the generation phase (so
\* never showed one) and another call is still running.
C21_LoadersBelongToOneSession ==
    [][\A k \in DOMAIN ms.sessions :
          Ran(k) =>
            /\ (k /= Latest /\ Active(ms.sessions[Latest]))
                  => ms'.dom.loaders[InitialLoader] >= ms.dom.loaders[InitialLoader]
            /\ (/\ ~ms.sessions[k].suggestionPhaseIsComplete
                /\ \E j \in DOMAIN ms.sessions \ {k} : Active(ms.sessions[j]))
                  => ms'.dom.loaders[GenerationLoader]
                        >= ms.dom.loaders[GenerationLoader]]_vars

\* C22: in one call the initial loader is on the page from the send until the
\* loop meets the first non-blank line, and never after that; a blank line
\* leaves it where it is, and a call that ends has none.
C22_InitialLoaderUntilFirstLine ==
    /\ [](Active(sess) /\ ~sess.hasReceivedData => dom.loaders[InitialLoader] = 1)
    /\ [](sess.hasReceivedData \/ sess.state \in Terminal
             => dom.loaders[InitialLoader] = 0)
    /\ [][Dispatching /\ ~IsBlank(CurrentLine)
             => sess'.hasReceivedData /\ dom'.loaders[InitialLoader] = 0]_vars
    /\ [][Dispatching /\ IsBlank(CurrentLine)
             => /\ sess'.hasReceivedData = sess.hasReceivedData
                /\ dom'.loaders = dom.loaders]_vars

\* the loop has met its first non-blank line, which opened no bubble: the
\* loader is gone and the call goes on
C22_Witness ==
    /\ sess.state = "Streaming"
    /\ sess.hasReceivedData
    /\ hist.badAfterFirst = FALSE /\ hist.chunks = 0
    /\ sess.suggMsgEl = 0 /\ sess.genMsgEl = 0
    /\ ~sess.suggestionPhaseIsComplete
    /\ dom.loaders[InitialLoader] = 0
    /\ Len(dom.chat) = 1

\* the loop is about to run an iteration on an event of this type
Meets(type) == Dispatching /\ HasType(CurrentLine, type)

\* the call was given a cached suggestion
Cached == ~sess.cachedSuggestion.isNull

\* C23 (as claimed): the generation loader is on the page only while the
\* suggestion phase is known complete and no generation chunk has been
\* applied; it is absent right after every generated_code_chunk and
\* stream_end, and no event shows it once the code bubble exists.
C23_GenerationLoaderBeforeGeneration ==
    /\ [](dom.loaders[GenerationLoader] > 0
             => sess.suggestionPhaseIsComplete /\ sess.genMsgEl = 0)
    /\ [][Meets("generated_code_chunk") \/ Meets("stream_end")
             => dom'.loaders[GenerationLoader] = 0]_vars
    /\ [][sess.genMsgEl /= 0
             => dom'.loaders[GenerationLoader] <= dom.loaders[GenerationLoader]]_vars

\* C23 (amended): the generation loader is on the page only in a running
\* call whose suggestion phase is known complete; it is absent right after
\* every generated_code_chunk and stream_end; it is shown by a
\* suggestions_end, also after generation has started, and by the first
\* non-blank line of a call that was given a cached suggestion, and by
\* nothing else.
C23_GenerationLoaderWhilePhaseComplete ==
    /\ [](dom.loaders[GenerationLoader] > 0
             => /\ Active(sess)
                /\ sess.suggestionPhaseIsComplete
                /\ sess.hasReceivedData)
    /\ [][Meets("generated_code_chunk") \/ Meets("stream_end")
             => dom'.loaders[GenerationLoader] = 0]_vars
    /\ [][Meets("suggestions_end") => dom'.loaders[GenerationLoader] = 1]_vars
    /\ [][dom'.loaders[GenerationLoader] > dom.loaders[GenerationLoader]
             => \/ Meets("suggestions_end")
                \/ /\ Dispatching /\ ~IsBlank(CurrentLine)
                   /\ Cached /\ ~sess.hasReceivedData]_vars

\* a call with a cached suggestion that has applied a generation chunk and
\* then met a suggestions_end: the loader is back next to the code bubble
C23_Witness ==
    /\ Cached
    /\ sess.state = "Streaming"
    /\ sess.genAccumMd = <<"y">>
    /\ dom.chat[sess.genMsgEl].cursor
    /\ dom.loaders[GenerationLoader] = 1

\* a suggestion or code bubble whose end event has removed its cursor
Finalized(d, el) ==
    d.chat[el].kind \in {"sugg", "code"} /\ ~d.chat[el].cursor

\* C24 (as claimed): once suggestions_end or stream_end has finalized a
\* bubble, no later event of the call changes its content, and the finalized
\* suggestion bubble shows the text the cache holds.
C24_FinalizedBubbleIsClosed ==
    /\ [][\A el \in DOMAIN dom.chat :
             Finalized(dom, el) => dom'.chat[el].body = dom.chat[el].body]_vars
    /\ [](sess.suggMsgEl /= 0 /\ Finalized(dom, sess.suggMsgEl)
             => dom.chat[sess.suggMsgEl].body = Marked(lastSuggestions.content))

\* C25 (as claimed): the agent of a phase is the agent of the chunk that
\* opened it, in the call's state and on the bubble, whatever later events
\* carry, and the cache holds the agent that opened the suggestion phase.
C25_AgentFixedByFirstChunk ==
    /\ [][sess.suggMsgEl /= 0
             => /\ sess'.suggAgent = sess.suggAgent
                /\ dom'.chat[sess.suggMsgEl].agent = sess.suggAgent]_vars
    /\ [][sess.genMsgEl /= 0
             => /\ sess'.genAgent = sess.genAgent
                /\ dom'.chat[sess.genMsgEl].agent = sess.genAgent]_vars
    /\ [](~lastSuggestions.isNull => lastSuggestions.agent = sess.suggAgent)

\* the call has changed the page: it has met a non-blank line or has ended
Updated(l) == l.hasReceivedData \/ l.state \in Terminal

\* the Regenerate button of el is clicked in this step
Activated(el) ==
    ~ms.dom.chat[el].regen.disabled /\ ms'.dom.chat[el].regen.disabled

\* C26 (as claimed): a bubble whose Regenerate button was clicked leaves the
\* page once, for good, and not before the call that the click started has
\* changed the page; it is off the page when that call is over.
C26_RemovedAfterFirstUpdate ==
    /\ [][\A el \in DOMAIN ms.dom.chat :
             ~ms.dom.chat[el].attached => ~ms'.dom.chat[el].attached]_vars
    /\ [][\A el \in DOMAIN ms.dom.chat : Clicked(el) => Updated(NewSession)]_vars
    /\ [](\A el \in DOMAIN ms.dom.chat :
             (/\ ms.dom.chat[el].regen.disabled
              /\ \A k \in DOMAIN ms.sessions : ~Active(ms.sessions[k]))
             => ~ms.dom.chat[el].attached)

\* C26 (amended): the bubble leaves the page once, for good, in the click
\* itself: after the initial loader is shown and before the new call, which
\* replays the button's message, has sent its request; so it is off the page
\* however that call ends.
C26_RemovedAtTheClick ==
    /\ [][\A el \in DOMAIN ms.dom.chat :
             ~ms.dom.chat[el].attached => ~ms'.dom.chat[el].attached]_vars
    /\ [][\A el \in DOMAIN ms.dom.chat :
             /\ Activated(el) <=> Clicked(el)
             /\ Clicked(el)
                  => /\ Started
                     /\ NewSession.state = "Requesting"
                     /\ ~Updated(NewSession)
                     /\ NewSession.messageToProcess
                           = ms.dom.chat[el].regen.originalMessage
                     /\ ms'.dom.loaders[InitialLoader] = 1]_vars
    /\ [](\A el \in DOMAIN ms.dom.chat :
             ms.dom.chat[el].regen.disabled => ~ms.dom.chat[el].attached)

\* the suggestion bubble was regenerated and the new call failed at the
\* fetch: the old bubble is off the page
C26_Witness ==
    /\ Len(ms.sessions) = 2
    /\ ms.sessions[2].state = "Failed"
    /\ ~ms.sessions[2].hasReceivedData
    /\ \E el \in DOMAIN ms.dom.chat :
          /\ ms.dom.chat[el].kind = "sugg"
          /\ ms.dom.chat[el].regen.disabled
          /\ ~ms.dom.chat[el].attached

\* the call stands at `await reader.read()`
AwaitingRead == sess.state = "Streaming" /\ sess.lines = <<>>

\* C27: a call that waits for a read stays in Streaming with the send button
\* disabled until the read itself settles: the only steps that take it out
\* of Streaming are the read that reports the end of the response and the
\* read that rejects.
C27_StalledReadStaysStreaming ==
    /\ [](sess.state = "Streaming" => dom.sendDisabled)
    /\ [][AwaitingRead
             => \/ sess'.state = "Streaming" /\ dom'.sendDisabled
                \/ ReadDone
                \/ ReadThrow]_vars

\* the call waits for a read in the middle of a line, after a first chunk
C27_Witness ==
    /\ AwaitingRead
    /\ sess.buffer /= <<>>
    /\ sess.suggAccumMd = <<"x">>
    /\ dom.sendDisabled

\* C28: an iteration on a blank or white-space-only line changes nothing but
\* the loop's position: page, cache and the call's locals stay as they are,
\* the line is not taken for received data, and an initial loader that was
\* on the page is still there.
C28_BlankLineChangesNothing ==
    [][Dispatching /\ IsBlank(CurrentLine)
          => /\ dom' = dom
             /\ lastSuggestions' = lastSuggestions
             /\ sess' = [sess EXCEPT !.lines = Tail(@)]
             /\ hist' = hist
             /\ ~sess.hasReceivedData
                   => ~sess'.hasReceivedData /\ dom'.loaders[InitialLoader] = 1]_vars

\* the first line of a read was blank and has been passed: the call has
\* received no data, the loader is on the page, the second line is next
C28_Witness ==
    /\ sess.state = "Streaming"
    /\ sess.lines = << <<"sc:A:y">> >>
    /\ ~sess.hasReceivedData
    /\ dom.loaders[InitialLoader] = 1

\* C30: whatever calls and clicks interleave, the page holds at most one
\* initial loader and at most one generation loader.
C30_AtMostOneLoaderPerId ==
    /\ ms.dom.loaders[InitialLoader] <= 1
    /\ ms.dom.loaders[GenerationLoader] <= 1

\* two calls have been started and neither has met a line: the second
\* showLoader found the loader of the first on the page and replaced it
C30_Witness ==
    /\ Len(ms.sessions) = 2
    /\ \A k \in 1..2 : Active(ms.sessions[k]) /\ ~ms.sessions[k].hasReceivedData
    /\ ms.dom.loaders[InitialLoader] = 1

(***************************************************************************)
(* Properties of the atomic-suggestion clients (SpecAtomic).               *)
(***************************************************************************)
\* the loop is about to run an iteration on a generation chunk
AtomMeetsChunk ==
    /\ atom.c.s.state = "Streaming"
    /\ atom.c.s.lines /= <<>>
    /\ AtomParse(Head(atom.c.s.lines)).ok
    /\ AtomParse(Head(atom.c.s.lines)).value.json = "object"
    /\ AtomParse(Head(atom.c.s.lines)).value.type = "generated_code_chunk"

AtomChunk == AtomParse(Head(atom.c.s.lines)).value

\* the code bubble created last
LastCode(c) ==
    CHOOSE el \in Bubbles(c, "code") : \A other \in Bubbles(c, "code") : other <= el

\* C29 (as claimed): a generation chunk whose agent is not the agent of the
\* generation chunk seen before it (or that is the first one) opens a new
\* code bubble under its own agent and its content goes there, the bubbles
\* already on the page staying as they are; a chunk with the same agent, no
\* stream_end having come in between, is appended to the code bubble created
\* last and opens none.
C29_NewAgentStartsNewBubble ==
    [][AtomMeetsChunk =>
          IF AtomChunk.agent /= atom.prevAgent
          THEN /\ OneAppended(atom.c.chat, atom'.c.chat)
               /\ LastBubble(atom'.c).kind = "code"
               /\ LastBubble(atom'.c).agent = AtomChunk.agent
               /\ LastBubble(atom'.c).body.of = AtomChunk.content
          ELSE ~atom.endedSince
                  => /\ Len(atom'.c.chat) = Len(atom.c.chat)
                     /\ atom'.c.chat[LastCode(atom.c)].body.of
                           = atom.c.chat[LastCode(atom.c)].body.of \o AtomChunk.content
                     /\ \A el \in DOMAIN atom.c.chat \ {LastCode(atom.c)} :
                           atom'.c.chat[el] = atom.c.chat[el]]_vars

(***************************************************************************)
(* Properties of regenerate clicks on bubbles of earlier exchanges.        *)
(***************************************************************************)
\* some call made for this message has finalized a suggestion: the
\* suggestions_end that fills the cache puts, in the same branch, the
\* Regenerate button with the call's message on the suggestion bubble, and
\* chat keeps every element ever created
FinalizedSuggestionFor(d, message) ==
    \E el \in Bubbles(d, "sugg") :
       /\ d.chat[el].regen.present
       /\ d.chat[el].regen.isForSuggestions
       /\ d.chat[el].regen.originalMessage = message

\* C31 (as claimed): a request that carries a cached suggestion carries one
\* that a call made for the request's user_message has finalized; stated by
\* what follows from it: some call for that message has finalized a
\* suggestion at all.
C31_CachedSuggestionIsForTheMessage ==
    [][(Started /\ CarriesCache(NewRequest))
          => FinalizedSuggestionFor(ms.dom, NewRequest.user_message)]_vars

\* C32 (as claimed): whenever a Regenerate button scoped to generation only
\* is clicked, the cache is populated and the request posted by the click
\* carries cached_suggestions and cached_sugg_agent.
C32_GenerationRegenerateHasCache ==
    [][\A el \in DOMAIN ms.dom.chat :
          (Clicked(el) /\ ~ms.dom.chat[el].regen.isForSuggestions)
          => (/\ ~ms.cache.isNull
              /\ CarriesCache(NewRequest))]_vars

(***************************************************************************)
(* Properties of two calls in flight (SpecSessions).                       *)
(***************************************************************************)
\* the bubbles call k has opened
Owned(M, k) == {M.sessions[k].suggMsgEl, M.sessions[k].genMsgEl} \ {0}

IsPrefix(s, t) == Len(s) <= Len(t) /\ SubSeq(t, 1, Len(s)) = s

\* C33: with two calls in flight no bubble belongs to both, the bubble of a
\* phase shows the call's own accumulator, and a step of one call appends
\* to its own accumulators only: the other call's locals and bubbles stay as
\* they are, and the content of a bubble changes only in a step of the call
\* that opened it.
C33_ChunksStayInOwnSession ==
    /\ [](\A j, k \in DOMAIN ms.sessions :
             j /= k => Owned(ms, j) \cap Owned(ms, k) = {})
    /\ [](\A k \in DOMAIN ms.sessions :
             LET l == ms.sessions[k] IN
             /\ l.suggMsgEl /= 0
                   => /\ ms.dom.chat[l.suggMsgEl].kind = "sugg"
                      /\ ms.dom.chat[l.suggMsgEl].body = Marked(l.suggAccumMd)
             /\ l.genMsgEl /= 0
                   => /\ ms.dom.chat[l.genMsgEl].kind = "code"
                      /\ ms.dom.chat[l.genMsgEl].body = Marked(l.genAccumMd))
    /\ [][\A k \in DOMAIN ms.sessions :
             Ran(k)
             => /\ IsPrefix(ms.sessions[k].suggAccumMd, ms'.sessions[k].suggAccumMd)
                /\ IsPrefix(ms.sessions[k].genAccumMd, ms'.sessions[k].genAccumMd)
                /\ \A j \in DOMAIN ms.sessions \ {k} :
                      /\ ms'.sessions[j] = ms.sessions[j]
                      /\ \A el \in Owned(ms, j) :
                            ms'.dom.chat[el].body = ms.dom.chat[el].body]_vars
    /\ [][\A el \in DOMAIN ms.dom.chat :
             ms'.dom.chat[el].body /= ms.dom.chat[el].body
             => \E k \in DOMAIN ms.sessions : Ran(k) /\ el \in Owned(ms', k)]_vars

\* two calls are streaming; the call started second was read first and has
\* finalized its suggestion bubble, the call started first then opened its
\* code bubble
C33_Witness ==
    /\ Len(ms.sessions) = 2
    /\ \A k \in 1..2 : ms.sessions[k].state = "Streaming"
    /\ ms.sessions[2].suggAccumMd = <<"x">>
    /\ ms.sessions[1].genAccumMd = <<"y">>
    /\ ms.sessions[2].suggMsgEl < ms.sessions[1].genMsgEl
    /\ ~ms.dom.chat[ms.sessions[2].suggMsgEl].cursor
    /\ ms.dom.chat[ms.sessions[1].genMsgEl].body = Marked(<<"y">>)

\* C34 (as claimed): while the send button is disabled because a call is
\* running, nothing done in the composer starts a call: a call that starts
\* then is started by a Regenerate click, never by a send, whether by
\* click or by the Enter key.
C34_DisabledSendStartsNoSession ==
    [][(/\ ms.dom.sendDisabled
        /\ \E k \in DOMAIN ms.sessions : Active(ms.sessions[k])
        /\ Started)
       => \E el \in DOMAIN ms.dom.chat : Clicked(el)]_vars

(***************************************************************************)
(* Properties of sends in the non-streaming client (SpecPage).             *)
(***************************************************************************)
\* C35: in the non-streaming client a send made while isLoading is true, or
\* with blank input, leaves the state as it is (no message, no request); so
\* isLoading is true exactly while a request is in flight, no request is
\* issued while one is in flight, and every request but the one in flight
\* has been answered by one message.
C35_OneRequestInFlight ==
    /\ [](\A raw \in PageInputs :
             (page.isLoading \/ Trim(raw) = <<>>) => pageHandleSend(page, raw) = page)
    /\ [](page.isLoading <=> page.pc /= "idle")
    /\ [](Len(page.messages)
             = 2 * page.sends - (IF page.pc = "idle" THEN 0 ELSE 1))
    /\ [][page.isLoading => page'.sends = page.sends]_vars

\* the second request is in flight, its response being read, and the
\* composer is used again: the first request was answered before the second
\* was sent
C35_Witness ==
    /\ page.isLoading
    /\ page.pc = "json"
    /\ page.sends = 2
    /\ Len(page.messages) = 3
    /\ page.messages[2].role = "assistant"
    /\ \E raw \in PageInputs : Trim(raw) /= <<>> /\ pageHandleSend(page, raw) = page

\* this step started a call without a send: a send renders a user bubble
StartedByClick == Started /\ Len(ms'.dom.chat) = Len(ms.dom.chat)

\* the Regenerate buttons that have been clicked
Spent(d) == {el \in DOMAIN d.chat : d.chat[el].regen.present /\ d.chat[el].regen.disabled}

\* the user bubbles rendered since the earlier exchange
SentSince(d) == Cardinality(Bubbles(d, "user")) - Cardinality(Bubbles(AnsweredDom, "user"))

\* C36: a call that is not started by a send is started by the click on one
\* Regenerate button that was enabled and on the page, posts one request for
\* the button's message and leaves the button disabled and its bubble off
\* the page; a clicked button is never enabled or put back, and cannot be
\* clicked again; so there are as many requests as sends and clicked
\* buttons.
C36_RegenerateStartsOneSession ==
    /\ [][StartedByClick
          => /\ Len(ms'.requests) = Len(ms.requests) + 1
             /\ \E el \in DOMAIN ms.dom.chat :
                   /\ ms.dom.chat[el].attached
                   /\ ~ms.dom.chat[el].regen.disabled
                   /\ Spent(ms'.dom) = Spent(ms.dom) \cup {el}
                   /\ ~ms'.dom.chat[el].attached
                   /\ NewRequest.user_message
                         = ms.dom.chat[el].regen.originalMessage]_vars
    /\ [][\A el \in Spent(ms.dom) :
             el \in Spent(ms'.dom) /\ ~ms'.dom.chat[el].attached]_vars
    /\ [](\A el \in Spent(ms.dom) : ~ENABLED Regenerate(el))
    /\ [](Len(ms.requests) = SentSince(ms.dom) + Cardinality(Spent(ms.dom)))

\* the button of the earlier code bubble has been clicked, the call it
\* started is over, and another call could be started: the button is
\* disabled and its bubble is off the page
C36_Witness ==
    /\ Len(ms.sessions) = 1
    /\ Len(ms.sessions) < MaxSessions
    /\ ms.sessions[1].state = "Completed"
    /\ \E el \in Spent(ms.dom) :
          /\ ms.dom.chat[el].kind = "code"
          /\ ~ms.dom.chat[el].attached
    /\ Len(ms.requests) = 1

(***************************************************************************)
(* Properties of events the switch has no case for, and of the Regenerate  *)
(* buttons of one bubble (SpecCalls).                                      *)
(***************************************************************************)
KnownTypes ==
    {"suggestions_chunk", "suggestions_end", "generated_code_chunk",
     "stream_end", "error"}

\* the loop is about to run an iteration on a record of a type that the
\* switch has no case for
MeetsUnknown ==
    /\ Dispatching
    /\ IsRecord(CurrentLine)
    /\ RecordOf(CurrentLine).type \notin KnownTypes

\* C37: a record whose type the client does not know changes no phase
\* state, no bubble and not the cache, and the call goes on with the next
\* line of the read.
C37_UnknownTypeIsIgnored ==
    [][MeetsUnknown
       => (/\ PhaseState(sess') = PhaseState(sess)
           /\ sess'.suggestionPhaseIsComplete = sess.suggestionPhaseIsComplete
           /\ dom'.chat = dom.chat
           /\ dom'.sendDisabled
           /\ lastSuggestions' = lastSuggestions
           /\ sess'.state = "Streaming"
           /\ sess'.lines = Tail(sess.lines)
           /\ sess'.buffer = sess.buffer)]_vars

\* the loop stands at such a record (the only step from here is its
\* dispatch) after a finalized suggestion phase and with the code bubble
\* open
C37_Witness ==
    /\ MeetsUnknown
    /\ lastSuggestions = CacheOf("A", <<"x">>)
    /\ sess.genMsgEl /= 0
    /\ dom.chat[sess.genMsgEl].cursor
    /\ sess.genAccumMd = <<"y">>

\* an end event is being dispatched for a phase whose bubble already has
\* its Regenerate button
RepeatedEnd(type, el) ==
    /\ Meets(type)
    /\ el /= 0
    /\ dom.chat[el].regen.present

\* C38: no bubble ever holds more than one Regenerate button, and a
\* suggestions_end or stream_end that comes again for a bubble that has its
\* button leaves the bubble, button included, as it is.
C38_OneRegenerateButtonPerBubble ==
    /\ [](\A el \in DOMAIN dom.chat :
             /\ dom.chat[el].regen.count <= 1
             /\ dom.chat[el].regen.present <=> dom.chat[el].regen.count = 1)
    /\ [][RepeatedEnd("suggestions_end", sess.suggMsgEl)
             => dom'.chat = dom.chat]_vars
    /\ [][RepeatedEnd("stream_end", sess.genMsgEl)
             => dom'.chat = dom.chat]_vars

\* the loop stands at a second stream_end for a code bubble that has its
\* button, after a suggestion phase that was finalized with a button too
C38_Witness ==
    /\ RepeatedEnd("stream_end", sess.genMsgEl)
    /\ ~dom.chat[sess.genMsgEl].cursor
    /\ sess.suggMsgEl /= 0
    /\ dom.chat[sess.suggMsgEl].regen.count = 1
    /\ dom.chat[sess.genMsgEl].regen.count = 1

====
